---- MODULE Spec2Model ----
(***************************************************************************)
(* Scene registry and deduplication scheduler of the Sentinel SAR          *)
(* processing package: the slot-bounded dispatcher (main.py), the registry *)
(* store and the spatial/temporal matcher (utils/registry.py).             *)
(*                                                                         *)
(* Coordinates are integers in units of 0.01 degree, dates count half      *)
(* days.  File paths are strings; the disk maps a path to "absent",        *)
(* "empty" (zero size), "invalid" (no readable raster) or "ok".            *)
(***************************************************************************)
EXTENDS Integers, Sequences, FiniteSets, TLC

(***************************************************************************)
(* Bounds of the model.                                                    *)
(***************************************************************************)
\* config.max_concurrent_jobs: the number of slots and of pool threads
MaxJobs == 2
\* len(tiff_files): the number of submitted requests
NumTiffs == 5
\* the most scenes in a registry handed to the matcher
MaxScenes == 2
\* config.max_concurrent_jobs of the default configuration: the pool threads
\* that can be inside the registry store at the same time
NumWorkers == 2
\* the most I/O errors the environment raises in one run
MaxFaults == 1
\* len(tiff_files) of a batch whose results are collected
BatchSize == 3
\* the most *_RTC_clipped.tif files the final directory holds at a rebuild
MaxFinal == 2
\* how many times in a row rebuild_sar_registry is run
MaxRuns == 2
\* the largest concurrency count a configuration or --max-jobs names
MaxCount == 2

VARIABLES
    \* ---- dispatcher (process_scenes) ----
    submitted,       \* how many requests the submit loop has handed to the executor
    work_queue,      \* the executor's FIFO of requests no pool thread has taken yet
    pool,            \* pool thread -> [st, req]: idle, waiting on a slot, inside it
    gpu_semaphores,  \* slot -> value of its Semaphore(1)
    results,         \* request -> value of its future: "none" or the job's status
    \* ---- matcher (check_scene_overlap called on its own) ----
    m_registry,      \* the registry argument
    m_files,         \* the disk at the time of the call
    m_request,       \* [bounds, phase, date] of the last call
    m_result,        \* what the last call returned
    \* ---- registry store (sar_registry.json and the workers using it) ----
    registry_file,   \* [st, reg]: absent, empty (opened 'w', nothing written),
                     \*            corrupt (not JSON), array (JSON, a list), scalar
                     \*            (JSON, a number or null) or a document holding reg
    creators,        \* the workers holding the file open for writing in the create branch
    temp_file,       \* worker -> [st, reg]: its NamedTemporaryFile
    backups,         \* the contents copied to sar_registry.json.bak.<time>
    wk,              \* worker -> its call of update_registry_atomic_fixed
    faults,          \* how many I/O errors the environment has raised
    touched,         \* history: the workers whose call saw another worker write the file
    last_writer,     \* history: the worker that last wrote the file, 0 for none
    mutators,        \* history: the workers that changed the persisted scenes or chips
    \* ---- jobs (process_single_scene) ----
    disk,            \* path -> "absent" or "ok": the RTC outputs and the final outputs
    \* ---- result handling (the as_completed loop of process_scenes) ----
    futures,         \* request -> "pending" or the status its future holds
    yielded,         \* the requests as_completed has yielded
    log_data,        \* log_data['jobs']: a sequence of [tiff_file, status]
    processing_log,  \* processing_log.json: [st, jobs], absent or a document
    log_temp,        \* the NamedTemporaryFile of the handling under way: [st, jobs]
    main_thread,     \* [pc, tiff_file, raised]: where the loop is, on which request,
                     \* and whether the latest handling ended in the except branch
    log_faults,      \* how many I/O errors the handling has met
    \* ---- rebuild (rebuild_sar_registry run from the command line) ----
    evidence,        \* [final, raw]: the final files in glob order, each [base,
                     \* rtc, readable], and the raw directory: [exists, zips]
    rb,              \* the run under way: [pc, run, i, dirs, new_registry, temp,
                     \* clock]; history: previous (the registry file when the run
                     \* started), returned (the registry each run has returned)
    rebuild_backups, \* name -> content of sar_registry.json.backup.<name>
    \* ---- mutator (register_processed_scene called on a registry in memory) ----
    mutation,        \* [pc, passed, args, returned, raised]: the dict object the
                     \* caller passed, as it is now, and what the call returned;
                     \* history: original, the content of that object at the call
    \* ---- startup (main) ----
    startup          \* [pc, source, configured, max_jobs, max_concurrent_jobs,
                     \* accepted]: where main is, where the configuration comes
                     \* from and the count it names, the --max-jobs argument, the
                     \* count of the config object, the requests submitted

slotVars == <<submitted, work_queue, pool, gpu_semaphores, results>>
matchVars == <<m_registry, m_files, m_request, m_result>>
regVars == <<registry_file, creators, temp_file, backups, wk, faults, touched,
             last_writer, mutators>>
jobVars == <<disk>>
logVars == <<futures, yielded, log_data, processing_log, log_temp, main_thread, log_faults>>
rebuildVars == <<evidence, rb, rebuild_backups>>
startVars == <<startup>>
mutVars == <<mutation>>
vars == <<slotVars, matchVars, regVars, jobVars, logVars, rebuildVars, startVars, mutVars>>
\* what the actions of one part leave alone
notSlots == <<matchVars, regVars, jobVars, logVars, rebuildVars, startVars, mutVars>>
notMatch == <<slotVars, regVars, jobVars, logVars, rebuildVars, startVars, mutVars>>
notReg == <<slotVars, matchVars, jobVars, logVars, rebuildVars, startVars, mutVars>>
notJob == <<slotVars, matchVars, logVars, rebuildVars, startVars, mutVars>>
notLog == <<slotVars, matchVars, regVars, jobVars, rebuildVars, startVars, mutVars>>
notRebuild == <<slotVars, matchVars, jobVars, logVars, creators, temp_file, backups,
                wk, touched, last_writer, mutators, startVars, mutVars>>
notMut == <<slotVars, matchVars, regVars, jobVars, logVars, rebuildVars, startVars>>
notStart == <<slotVars, matchVars, regVars, jobVars, logVars, rebuildVars, mutVars>>

(***************************************************************************)
(* Registry documents: utils/registry.py                                   *)
(*                                                                         *)
(* A registry is a Python dict, i.e. an insertion-ordered mapping: here a  *)
(* sequence of scene records with distinct ids, each holding its chips as  *)
(* a sequence of chip records with distinct ids.  A processed_files dict   *)
(* is a record over the output kinds, NoPath standing for a missing key.   *)
(* Python's None is None for a phase and the empty tuple for a date.       *)
(***************************************************************************)
None == "None"
NoDate == <<>>
NoPath == ""
Kinds == {"vv", "vh", "dem", "safe", "orbit", "clipped"}
NoFiles == [k \in Kinds |-> NoPath]

Abs(x) == IF x < 0 THEN -x ELSE x

\* coordinate tolerance of the exact-chip pass, in units of 0.01 degree
Tolerance == 1
\* buffer of the containment pass, in units of 0.01 degree
Buffer == 10
\* config.date_tolerance_days
DateToleranceDays == 30

\* the index of scene_id in the registry, 0 when it is no key
SceneIndex(registry, scene_id) ==
    IF \E i \in 1 .. Len(registry) : registry[i].id = scene_id
    THEN CHOOSE i \in 1 .. Len(registry) : registry[i].id = scene_id
    ELSE 0

SceneIds(registry) == {registry[i].id : i \in 1 .. Len(registry)}

ChipIndex(chips, chip_id) ==
    IF \E j \in 1 .. Len(chips) : chips[j].id = chip_id
    THEN CHOOSE j \in 1 .. Len(chips) : chips[j].id = chip_id
    ELSE 0

(***************************************************************************)
(* Spatial/temporal matcher: check_scene_overlap                           *)
(***************************************************************************)
\* strict_phase_check = disaster_phase != 'unknown'
strict_phase_check(disaster_phase) == disaster_phase # "unknown"

\* the `continue` at the head of both passes
PhaseSkippedLoose(info, disaster_phase) ==
    /\ strict_phase_check(disaster_phase)
    /\ info.disaster_phase # None
    /\ info.disaster_phase # disaster_phase
    /\ disaster_phase # "post_disaster"
PhaseSkipped(info, disaster_phase) ==
    /\ strict_phase_check(disaster_phase)
    /\ info.disaster_phase # None
    /\ info.disaster_phase # disaster_phase

\* all four differences within tolerance
ChipMatches(maxar_bounds, chip_bounds, tolerance) ==
    \A c \in 1 .. 4 : Abs(maxar_bounds[c] - chip_bounds[c]) <= tolerance

NoMatch == [scene_id |-> None, processed_files |-> NoFiles]

\* first pass: the first chip, in registry order, of a scene that is not
\* skipped by phase, whose bounds match
ExactHits(maxar_bounds, registry, disaster_phase, tolerance) ==
    {h \in UNION {{<<i, j>> : j \in 1 .. Len(registry[i].maxar_chips)} :
                  i \in 1 .. Len(registry)} :
        /\ ~PhaseSkipped(registry[h[1]], disaster_phase)
        /\ Len(registry[h[1]].maxar_chips[h[2]].bounds) = 4
        /\ ChipMatches(maxar_bounds, registry[h[1]].maxar_chips[h[2]].bounds, tolerance)}

Before(h, g) == h[1] < g[1] \/ (h[1] = g[1] /\ h[2] <= g[2])

ExactPassLast(maxar_bounds, registry, disaster_phase, tolerance) ==
    LET hits == ExactHits(maxar_bounds, registry, disaster_phase, tolerance) IN
    IF hits = {} THEN NoMatch
    ELSE LET h == CHOOSE x \in hits : \A g \in hits : Before(g, x) IN
         [scene_id |-> registry[h[1]].id,
          processed_files |-> registry[h[1]].maxar_chips[h[2]].processed_files]
ExactPass(maxar_bounds, registry, disaster_phase, tolerance) ==
    LET hits == ExactHits(maxar_bounds, registry, disaster_phase, tolerance) IN
    IF hits = {} THEN NoMatch
    ELSE LET h == CHOOSE x \in hits : \A g \in hits : Before(x, g) IN
         [scene_id |-> registry[h[1]].id,
          processed_files |-> registry[h[1]].maxar_chips[h[2]].processed_files]

\* abs((scene_date - maxar_date).days) > date_tolerance_days; dates count
\* half days, and timedelta.days is the floor of the difference in days
DateSkipped(info, maxar_date, date_tolerance_days) ==
    /\ info.acquisition_date # NoDate
    /\ Abs((info.acquisition_date[1] - maxar_date) \div 2) > date_tolerance_days

\* s_min_lat, s_min_lon, s_max_lat, s_max_lon = sentinel_bounds, then the
\* four comparisons of is_contained
is_contained(maxar_bounds, sentinel_bounds, buffer) ==
    LET s_min_lat == sentinel_bounds[1]
        s_min_lon == sentinel_bounds[2]
        s_max_lat == sentinel_bounds[3]
        s_max_lon == sentinel_bounds[4]
    IN  /\ maxar_bounds[1] >= s_min_lon - buffer
        /\ maxar_bounds[3] <= s_max_lon + buffer
        /\ maxar_bounds[2] >= s_min_lat - buffer
        /\ maxar_bounds[4] <= s_max_lat + buffer

\* the validation loop over the 'vv' and 'vh' entries: exists, non-zero size,
\* opens as a raster with bands and dimensions
FilesValidated(processed_files, files) ==
    \A k \in {"vv", "vh"} :
        processed_files[k] # NoPath => files[processed_files[k]] = "ok"

ContainmentHits(maxar_bounds, registry, disaster_phase, maxar_date, date_tolerance_days, files) ==
    {i \in 1 .. Len(registry) :
        /\ ~PhaseSkipped(registry[i], disaster_phase)
        /\ ~DateSkipped(registry[i], maxar_date, date_tolerance_days)
        /\ Len(registry[i].sentinel_bounds) = 4
        /\ is_contained(maxar_bounds, registry[i].sentinel_bounds, Buffer)
        /\ FilesValidated(registry[i].processed_files, files)}

ContainmentPass(maxar_bounds, registry, disaster_phase, maxar_date, date_tolerance_days, files) ==
    LET hits == ContainmentHits(maxar_bounds, registry, disaster_phase, maxar_date,
                                date_tolerance_days, files) IN
    IF hits = {} THEN NoMatch
    ELSE LET i == CHOOSE x \in hits : \A y \in hits : x <= y IN
         [scene_id |-> registry[i].id, processed_files |-> registry[i].processed_files]

\* check_scene_overlap is the exact pass, then the containment pass if it
\* found nothing; ContainmentFirst would be the two passes the other way round
ContainmentFirst(maxar_bounds, registry, disaster_phase, maxar_date, tolerance, date_tolerance_days, files) ==
    IF registry = <<>> THEN NoMatch
    ELSE LET contained == ContainmentPass(maxar_bounds, registry, disaster_phase, maxar_date,
                                          date_tolerance_days, files) IN
         IF contained # NoMatch THEN contained
         ELSE ExactPass(maxar_bounds, registry, disaster_phase, tolerance)
check_scene_overlap(maxar_bounds, registry, disaster_phase, maxar_date, tolerance, date_tolerance_days, files) ==
    IF registry = <<>> THEN NoMatch
    ELSE LET exact == ExactPass(maxar_bounds, registry, disaster_phase, tolerance) IN
         IF exact # NoMatch THEN exact
         ELSE ContainmentPass(maxar_bounds, registry, disaster_phase, maxar_date,
                              date_tolerance_days, files)

(***************************************************************************)
(* The matcher on its own: every registry of at most MaxScenes scenes      *)
(* drawn from the templates below, every request of Requests.              *)
(***************************************************************************)
\* a square footprint (10..12 degrees both ways) and one whose longitude
\* range (10..12) and latitude range (40..42) differ, as (west, south, east, north)
FSquare == <<1000, 1000, 1200, 1200>>
FWide == <<1000, 4000, 1200, 4200>>
\* chip bounds inside FSquare and inside FWide
BSquare == <<1050, 1050, 1100, 1100>>
BWide == <<1050, 4050, 1100, 4100>>

SceneName(i) == <<"S1", "S2", "S3", "S4">>[i]
BaseFiles(i) ==
    [NoFiles EXCEPT !["vv"] = <<"S1_vv", "S2_vv", "S3_vv", "S4_vv">>[i],
                    !["vh"] = <<"S1_vh", "S2_vh", "S3_vh", "S4_vh">>[i]]
Paths == UNION {{BaseFiles(i)["vv"], BaseFiles(i)["vh"]} : i \in 1 .. 4}

\* the map process_single_scene registers after a full run: the two rasters,
\* the DEM, the downloaded SAFE archive and the orbit file
CompletedFiles(i) ==
    [BaseFiles(i) EXCEPT !["dem"] = <<"S1_dem", "S2_dem", "S3_dem", "S4_dem">>[i],
                         !["safe"] = <<"S1_safe", "S2_safe", "S3_safe", "S4_safe">>[i],
                         !["orbit"] = <<"S1_orbit", "S2_orbit", "S3_orbit", "S4_orbit">>[i]]
RawPaths == {CompletedFiles(i)["safe"] : i \in 1 .. 4}
AuxPaths == UNION {{CompletedFiles(i)["dem"], CompletedFiles(i)["orbit"]} : i \in 1 .. 4}

\* the scene record update_registry_atomic_fixed creates for a first chip;
\* with_chip = FALSE is the same scene with an empty maxar_chips
SceneOf(i, footprint, phase, adate, with_chip) ==
    [id |-> SceneName(i),
     sentinel_bounds |-> footprint,
     processed_files |-> BaseFiles(i),
     processing_date |-> 0,
     disaster_phase |-> phase,
     acquisition_date |-> adate,
     missing |-> {},
     maxar_chips |->
        IF with_chip
        THEN <<[id |-> "chip",
                bounds |-> IF footprint = FSquare THEN BSquare ELSE BWide,
                processed_files |-> BaseFiles(i),
                processing_date |-> 0,
                disaster_phase |-> phase]>>
        ELSE <<>>]

Phases == {None, "pre_disaster", "post_disaster"}

\* the scene a full run registered (scene and first chip carry the files of
\* that run, which detected no phase) after a reuse job for a pre_disaster
\* tiff has added a second chip, within tolerance of the first, whose
\* processed_files name the clipped output only
TwoChips(i) ==
    [SceneOf(i, FSquare, None, <<0>>, TRUE) EXCEPT
        !.processed_files = CompletedFiles(i),
        !.maxar_chips = Append([@ EXCEPT ![1].processed_files = CompletedFiles(i)],
                                  [id |-> "chip2",
                                   bounds |-> <<BSquare[1] + Tolerance, BSquare[2],
                                                BSquare[3], BSquare[4]>>,
                                   processed_files |-> [NoFiles EXCEPT !["clipped"] = "chip2_final"],
                                   processing_date |-> 0,
                                   disaster_phase |-> "pre_disaster"])]

Templates(i) ==
    {SceneOf(i, fp, ph, <<0>>, ch) :
        fp \in {FSquare, FWide}, ph \in Phases, ch \in BOOLEAN}
    \cup {SceneOf(i, FSquare, ph, NoDate, FALSE) : ph \in Phases}
    \cup {TwoChips(i)}

RECURSIVE RegistriesOfLen(_)
RegistriesOfLen(n) ==
    IF n = 0 THEN {<<>>}
    ELSE {Append(r, t) : r \in RegistriesOfLen(n - 1), t \in Templates(n)}

Registries == UNION {RegistriesOfLen(n) : n \in 0 .. MaxScenes}

Shift(b, d) == <<b[1] + d, b[2], b[3], b[4]>>

RequestBounds ==
    {BSquare, Shift(BSquare, Tolerance), Shift(BSquare, Tolerance + 1),
     <<FSquare[1] - Buffer, 1050, 1100, 1100>>,
     <<FSquare[1] - Buffer - 1, 1050, 1100, 1100>>,
     BWide, <<BWide[2], BWide[1], BWide[4], BWide[3]>>}

Requests ==
    [bounds : RequestBounds,
     phase : Phases \cup {"unknown"},
     date : {0, 2 * DateToleranceDays + 1, -(2 * DateToleranceDays + 1)}]

\* every output is in place; the raw archives are gone, removed by the
\* clean-up that ends a full run
AllOk == [p \in Paths \cup AuxPaths \cup RawPaths |->
            IF p \in RawPaths THEN "absent" ELSE "ok"]
Disks == {AllOk, [AllOk EXCEPT !["S1_vv"] = "absent"], [AllOk EXCEPT !["S1_vh"] = "empty"]}

NoRequest == [bounds |-> <<>>, phase |-> None, date |-> 0]

MatchInit ==
    /\ m_registry \in Registries
    /\ m_files \in Disks
    /\ m_request = NoRequest
    /\ m_result = NoMatch

\* matching_scene, existing_files = check_scene_overlap(maxar_bounds, sar_registry,
\*     disaster_phase, maxar_date, tolerance=config.tolerance, ...)
CallCheckSceneOverlap(req) ==
    /\ m_request = NoRequest
    /\ m_request' = req
    /\ m_result' = check_scene_overlap(req.bounds, m_registry, req.phase, req.date,
                                       Tolerance, DateToleranceDays, m_files)
    /\ UNCHANGED <<m_registry, m_files, notMatch>>

MatchNext == \E req \in Requests : CallCheckSceneOverlap(req)

(***************************************************************************)
(* Registry store: fix_load_sar_registry, fix_save_sar_registry and        *)
(* update_registry_atomic_fixed, one step per file-system operation.  A    *)
(* kill of the process is the run ending where it is: every reachable      *)
(* state is a state in which a kill can leave the files.                   *)
(* A scene record lists in `missing` the optional keys its dict lacks.     *)
(***************************************************************************)
Workers == 1 .. NumWorkers
max_retries == 3

Absent == [st |-> "absent", reg |-> <<>>]
Empty == [st |-> "empty", reg |-> <<>>]
Corrupt == [st |-> "corrupt", reg |-> <<>>]
\* valid JSON that is no object: a non-empty list, and a value without len()
JsonArray == [st |-> "array", reg |-> <<>>]
JsonScalar == [st |-> "scalar", reg |-> <<>>]
\* json.dump(registry, temp_file, indent=2): the document holds the mapping
json_dump(registry) == [st |-> "doc", reg |-> registry]
NoTemp == [st |-> "none", reg |-> <<>>]

\* what update_registry_atomic_fixed is called with
NoArgs ==
    [scene_id |-> None, sentinel_bounds |-> <<>>, maxar_bounds |-> <<>>,
     processed_files |-> NoFiles, maxar_id |-> None, disaster_phase |-> None,
     acquisition_date |-> NoDate]

\* a worker: where it is (pc), which call of fix_load_sar_registry it is in
\* (site), the locals of update_registry_atomic_fixed (attempt, args,
\* registry_copy, ret) and of process_single_scene (caller = the branch that
\* called the update, req, sar_registry, match, outcome).  History: `before`,
\* the scene ids persisted when the update was called; `matched`, whether
\* check_scene_overlap has returned; `invoked`, the collaborators the job
\* called; `found`, the undecodable content its last json.load choked on
IdleWorker ==
    [pc |-> "idle", site |-> "none", attempt |-> 0, args |-> NoArgs,
     registry_copy |-> <<>>, ret |-> "none", before |-> {}, found |-> NoTemp,
     caller |-> "none", req |-> NoRequest, sar_registry |-> <<>>,
     match |-> NoMatch, matched |-> FALSE, outcome |-> "none", invoked |-> {}]

\* what a fresh fix_load_sar_registry returns for a file, I/O errors aside
Persisted(file) == IF file.st = "doc" THEN file.reg ELSE <<>>

\* datetime.now().isoformat() of worker w's attempt: a stamp no other attempt has
Stamp(w, attempt) == w * (max_retries + 1) + attempt + 1

\* registry_copy[scene_id]['maxar_chips'][maxar_id] = {...}
PutChip(chips, chip) ==
    IF ChipIndex(chips, chip.id) = 0 THEN Append(chips, chip)
    ELSE [chips EXCEPT ![ChipIndex(chips, chip.id)] = chip]

\* the copy of the loaded registry with the scene created or its chip added
UpdatedRegistryNoChip(registry, a, now) ==
    IF SceneIndex(registry, a.scene_id) # 0 THEN registry
    ELSE Append(registry,
            [id |-> a.scene_id, sentinel_bounds |-> a.sentinel_bounds,
             processed_files |-> a.processed_files, processing_date |-> now,
             disaster_phase |-> a.disaster_phase,
             acquisition_date |-> a.acquisition_date, missing |-> {},
             maxar_chips |-> <<>>])
UpdatedRegistry(registry, a, now) ==
    LET i == SceneIndex(registry, a.scene_id)
        chip == [id |-> a.maxar_id, bounds |-> a.maxar_bounds,
                 processed_files |-> a.processed_files, processing_date |-> now,
                 disaster_phase |-> a.disaster_phase]
    IN  IF i # 0
        THEN LET info == registry[i]
                 chips == IF "maxar_chips" \in info.missing THEN <<>> ELSE info.maxar_chips
                 setPhase == a.disaster_phase # None /\ "disaster_phase" \in info.missing
                 setDate == a.acquisition_date # NoDate /\ "acquisition_date" \in info.missing
             IN  [registry EXCEPT ![i] =
                    [info EXCEPT
                        !.maxar_chips = PutChip(chips, chip),
                        !.disaster_phase = IF setPhase THEN a.disaster_phase ELSE @,
                        !.acquisition_date = IF setDate THEN a.acquisition_date ELSE @,
                        !.missing = (@ \ {"maxar_chips"})
                                    \ ((IF setPhase THEN {"disaster_phase"} ELSE {})
                                       \cup (IF setDate THEN {"acquisition_date"} ELSE {}))]]
        ELSE Append(registry,
                [id |-> a.scene_id, sentinel_bounds |-> a.sentinel_bounds,
                 processed_files |-> a.processed_files, processing_date |-> now,
                 disaster_phase |-> a.disaster_phase,
                 acquisition_date |-> a.acquisition_date, missing |-> {},
                 maxar_chips |-> <<chip>>])

\* the end of one pass of `for attempt in range(max_retries)` that did not
\* return (NextAttempt); NextAttemptOneMore is a loop that goes round once more
NextAttemptOneMore(rec) ==
    IF rec.attempt < max_retries
    THEN [rec EXCEPT !.attempt = @ + 1, !.pc = "load", !.site = "update",
                     !.registry_copy = <<>>]
    ELSE [rec EXCEPT !.attempt = @ + 1, !.pc = "done", !.site = "none",
                     !.registry_copy = <<>>, !.ret = "false"]
NextAttempt(rec) ==
    IF rec.attempt + 1 < max_retries
    THEN [rec EXCEPT !.attempt = @ + 1, !.pc = "load", !.site = "update",
                     !.registry_copy = <<>>]
    ELSE [rec EXCEPT !.attempt = @ + 1, !.pc = "done", !.site = "none",
                     !.registry_copy = <<>>, !.ret = "false"]

\* `if scene_id in verification_registry: return True`
Verified(verification_registry, a) == a.scene_id \in SceneIds(verification_registry)

\* what the caller of fix_load_sar_registry does with the registry it returns:
\* process_single_scene keeps it as sar_registry and goes on to the matcher;
\* the update copies and mutates it and goes on to save; the verification
\* looks for the scene and returns True or starts the next attempt
AfterLoad(w, value) ==
    LET rec == wk[w] IN
    IF rec.site = "job"
    THEN [rec EXCEPT !.sar_registry = value, !.pc = "match", !.site = "none"]
    ELSE IF rec.site = "update"
    THEN [rec EXCEPT !.registry_copy = UpdatedRegistry(value, rec.args, Stamp(w, rec.attempt)),
                     !.pc = "save_tmp"]
    ELSE IF Verified(value, rec.args)
         THEN [rec EXCEPT !.pc = "done", !.site = "none", !.registry_copy = <<>>,
                          !.ret = "true"]
         ELSE NextAttempt(rec)

\* history kept when worker w writes the registry file
Touch(w) ==
    /\ touched' = touched \cup {u \in Workers \ {w} : wk[u].pc # "idle"}
    /\ last_writer' = w
    /\ mutators' = IF Persisted(registry_file') # Persisted(registry_file)
                   THEN mutators \cup {w} ELSE mutators

Untouched == UNCHANGED <<touched, last_writer, mutators>>

\* the calls main.py makes: a chip of worker w against scene 1 or scene 2,
\* and the tiff named "chip" processed again against scene 1, with other
\* bounds, the other phase and another scene date
ChipName(w) == <<"c1", "c2", "c3", "c4">>[w]
UpdateArgs(w) ==
    {[scene_id |-> SceneName(i),
      sentinel_bounds |-> IF i = 1 THEN FSquare ELSE FWide,
      maxar_bounds |-> IF i = 1 THEN BSquare ELSE BWide,
      processed_files |-> BaseFiles(i),
      maxar_id |-> ChipName(w),
      disaster_phase |-> "pre_disaster",
      acquisition_date |-> <<0>>] : i \in 1 .. 2}
    \cup {[scene_id |-> SceneName(1),
           sentinel_bounds |-> FSquare,
           maxar_bounds |-> Shift(BSquare, Tolerance + 1),
           processed_files |-> BaseFiles(1),
           maxar_id |-> "chip",
           disaster_phase |-> "post_disaster",
           acquisition_date |-> <<2>>]}

StoreInit ==
    /\ registry_file \in {Absent, Corrupt, JsonArray, JsonScalar, json_dump(<<>>),
                          json_dump(<<SceneOf(1, FSquare, "pre_disaster", <<0>>, TRUE)>>)}
    /\ creators = {}
    /\ temp_file = [w \in Workers |-> NoTemp]
    /\ backups = {}
    /\ wk = [w \in Workers |-> IdleWorker]
    /\ faults = 0
    /\ touched = {}
    /\ last_writer = 0
    /\ mutators = {}

\* update_registry_atomic_fixed(...) is entered: the first attempt starts
EnterUpdate(rec, a, caller) ==
    [rec EXCEPT !.pc = "load", !.site = "update", !.attempt = 0, !.args = a,
                !.ret = "none", !.caller = caller,
                !.before = SceneIds(Persisted(registry_file))]

\* the update called on its own, as main.py calls it
CallUpdate(w) ==
    /\ wk[w].pc = "idle"
    /\ \E a \in UpdateArgs(w) :
        wk' = [wk EXCEPT ![w] = EnterUpdate(wk[w], a, "none")]
    /\ UNCHANGED <<registry_file, creators, temp_file, backups, faults, notReg>>
    /\ Untouched

\* os.path.exists is True, json.load parses the document
LoadRead(w) ==
    /\ wk[w].pc = "load"
    /\ registry_file.st = "doc"
    /\ wk' = [wk EXCEPT ![w] = AfterLoad(w, registry_file.reg)]
    /\ UNCHANGED <<registry_file, creators, temp_file, backups, faults, notReg>>
    /\ Untouched

\* os.path.exists is True, json.load parses a list: len() works and the list
\* is returned as the registry
LoadReadNotDict(w) ==
    /\ wk[w].pc = "load"
    /\ registry_file.st = "array"
    /\ wk' = [wk EXCEPT ![w].pc = "not_a_dict"]
    /\ UNCHANGED <<registry_file, creators, temp_file, backups, faults, notReg>>
    /\ Untouched

\* the caller uses the list: registry.items() raises AttributeError in the
\* update (caught, next attempt) and in check_scene_overlap (the job fails);
\* `scene_id in verification_registry` is False
UseNotDict(w) ==
    /\ wk[w].pc = "not_a_dict"
    /\ wk' = [wk EXCEPT ![w] = IF wk[w].site = "job"
                               THEN [wk[w] EXCEPT !.pc = "finished", !.site = "none",
                                                  !.outcome = "failed"]
                               ELSE NextAttempt(wk[w])]
    /\ UNCHANGED <<registry_file, creators, temp_file, backups, faults, notReg>>
    /\ Untouched

\* os.path.exists is True, json.load parses a number or null: len(registry)
\* raises TypeError into the outer `except Exception`: return {}
LoadReadScalar(w) ==
    /\ wk[w].pc = "load"
    /\ registry_file.st = "scalar"
    /\ wk' = [wk EXCEPT ![w] = AfterLoad(w, <<>>)]
    /\ UNCHANGED <<registry_file, creators, temp_file, backups, faults, notReg>>
    /\ Untouched

\* os.path.exists is True, json.load raises JSONDecodeError
LoadReadUndecodable(w) ==
    /\ wk[w].pc = "load"
    /\ registry_file.st \in {"empty", "corrupt"}
    /\ wk' = [wk EXCEPT ![w].pc = "backup", ![w].found = registry_file]
    /\ UNCHANGED <<registry_file, creators, temp_file, backups, faults, notReg>>
    /\ Untouched

\* shutil.copy2(registry_file, backup_file); return {}
LoadBackup(w) ==
    /\ wk[w].pc = "backup"
    /\ backups' = backups \cup {registry_file}
    /\ wk' = [wk EXCEPT ![w] = AfterLoad(w, <<>>)]
    /\ UNCHANGED <<registry_file, creators, temp_file, faults, notReg>>
    /\ Untouched

\* shutil.copy2 raises (the outer `except Exception`): return {}
LoadBackupFails(w) ==
    /\ wk[w].pc = "backup"
    /\ faults < MaxFaults
    /\ faults' = faults + 1
    /\ wk' = [wk EXCEPT ![w] = AfterLoad(w, <<>>)]
    /\ UNCHANGED <<registry_file, creators, temp_file, backups, notReg>>
    /\ Untouched

\* open or read raises (the outer `except Exception`): return {}
LoadReadFails(w) ==
    /\ wk[w].pc = "load"
    /\ registry_file.st # "absent"
    /\ faults < MaxFaults
    /\ faults' = faults + 1
    /\ wk' = [wk EXCEPT ![w] = AfterLoad(w, <<>>)]
    /\ UNCHANGED <<registry_file, creators, temp_file, backups, notReg>>
    /\ Untouched

\* os.path.exists is False
LoadSeesAbsent(w) ==
    /\ wk[w].pc = "load"
    /\ registry_file.st = "absent"
    /\ wk' = [wk EXCEPT ![w].pc = "create_open"]
    /\ UNCHANGED <<registry_file, creators, temp_file, backups, faults, notReg>>
    /\ Untouched

\* open(registry_file, 'w'): creates the file, or truncates the one that is there by now
LoadCreateOpen(w) ==
    /\ wk[w].pc = "create_open"
    /\ registry_file' = Empty
    /\ creators' = creators \cup {w}
    /\ wk' = [wk EXCEPT ![w].pc = "create_write"]
    /\ Touch(w)
    /\ UNCHANGED <<temp_file, backups, faults, notReg>>

\* makedirs or open raises in the create branch: return {}
LoadCreateFails(w) ==
    /\ wk[w].pc = "create_open"
    /\ faults < MaxFaults
    /\ faults' = faults + 1
    /\ wk' = [wk EXCEPT ![w] = AfterLoad(w, <<>>)]
    /\ UNCHANGED <<registry_file, creators, temp_file, backups, notReg>>
    /\ Untouched

\* f.write('{}') and the close of the with block; return {}.  The write goes to the
\* file that was opened: a rename since then has put another file at the path
LoadCreateWrite(w) ==
    /\ wk[w].pc = "create_write"
    /\ IF w \in creators
       THEN /\ registry_file' = json_dump(<<>>)
            /\ Touch(w)
       ELSE /\ UNCHANGED registry_file
            /\ Untouched
    /\ creators' = creators \ {w}
    /\ wk' = [wk EXCEPT ![w] = AfterLoad(w, <<>>)]
    /\ UNCHANGED <<temp_file, backups, faults, notReg>>

\* tempfile.NamedTemporaryFile(mode='w', delete=False, dir=...)
SaveCreateTemp(w) ==
    /\ wk[w].pc = "save_tmp"
    /\ temp_file' = [temp_file EXCEPT ![w] = [st |-> "created", reg |-> <<>>]]
    /\ wk' = [wk EXCEPT ![w].pc = "save_dump"]
    /\ UNCHANGED <<registry_file, creators, backups, faults, notReg>>
    /\ Untouched

\* json.dump, flush, fsync, close: all into the temporary file (SaveDump); a
\* dump that opened the registry file itself would be SaveDumpInPlace
SaveDumpInPlace(w) ==
    /\ wk[w].pc = "save_dump"
    /\ registry_file' = Empty
    /\ temp_file' = [temp_file EXCEPT ![w] = json_dump(wk[w].registry_copy)]
    /\ wk' = [wk EXCEPT ![w].pc = "save_rename"]
    /\ UNCHANGED <<creators, backups, faults, notReg>>
    /\ Untouched
SaveDump(w) ==
    /\ wk[w].pc = "save_dump"
    /\ temp_file' = [temp_file EXCEPT ![w] = json_dump(wk[w].registry_copy)]
    /\ wk' = [wk EXCEPT ![w].pc = "save_rename"]
    /\ UNCHANGED <<registry_file, creators, backups, faults, notReg>>
    /\ Untouched

\* os.rename(temp_file.name, registry_file); return True, and the update goes on
\* to verification_registry = fix_load_sar_registry(output_base_dir)
\* (SaveRename); SaveRenameNothing is a rename that leaves the old file in place
SaveRenameNothing(w) ==
    /\ wk[w].pc = "save_rename"
    /\ temp_file' = [temp_file EXCEPT ![w] = NoTemp]
    /\ wk' = [wk EXCEPT ![w].pc = "load", ![w].site = "verify"]
    /\ UNCHANGED <<registry_file, creators, backups, faults, notReg>>
    /\ Untouched
SaveRename(w) ==
    /\ wk[w].pc = "save_rename"
    /\ registry_file' = temp_file[w]
    /\ creators' = {}
    /\ temp_file' = [temp_file EXCEPT ![w] = NoTemp]
    /\ wk' = [wk EXCEPT ![w].pc = "load", ![w].site = "verify"]
    /\ Touch(w)
    /\ UNCHANGED <<backups, faults, notReg>>

\* a step of fix_save_sar_registry raises: the handler unlinks the temporary file if
\* there is one and returns False; the update starts its next attempt
SaveFails(w) ==
    /\ wk[w].pc \in {"save_tmp", "save_dump", "save_rename"}
    /\ faults < MaxFaults
    /\ faults' = faults + 1
    /\ temp_file' = [temp_file EXCEPT ![w] = NoTemp]
    /\ wk' = [wk EXCEPT ![w] = NextAttempt(wk[w])]
    /\ UNCHANGED <<registry_file, creators, backups, notReg>>
    /\ Untouched

StoreNext ==
    \/ \E w \in Workers : CallUpdate(w)
    \/ \E w \in Workers : LoadRead(w)
    \/ \E w \in Workers : LoadReadNotDict(w)
    \/ \E w \in Workers : UseNotDict(w)
    \/ \E w \in Workers : LoadReadScalar(w)
    \/ \E w \in Workers : LoadReadUndecodable(w)
    \/ \E w \in Workers : LoadBackup(w)
    \/ \E w \in Workers : LoadBackupFails(w)
    \/ \E w \in Workers : LoadReadFails(w)
    \/ \E w \in Workers : LoadSeesAbsent(w)
    \/ \E w \in Workers : LoadCreateOpen(w)
    \/ \E w \in Workers : LoadCreateFails(w)
    \/ \E w \in Workers : LoadCreateWrite(w)
    \/ \E w \in Workers : SaveCreateTemp(w)
    \/ \E w \in Workers : SaveDump(w)
    \/ \E w \in Workers : SaveRename(w)
    \/ \E w \in Workers : SaveFails(w)

(***************************************************************************)
(* Jobs: main.py, process_single_scene, one job per worker.  The job uses  *)
(* the registry store above for its load and for its update.               *)
(***************************************************************************)
\* final_output = <output_dir>/final/<base_name>_RTC_clipped.tif of worker w's tiff
FinalOutput(w) == <<"c1_final", "c2_final", "c3_final", "c4_final">>[w]
\* the VV and VH rasters run_rtc_processing leaves in dirs['rtc'] of worker w's tiff
RtcFiles(w) ==
    [NoFiles EXCEPT !["vv"] = <<"c1_vv", "c2_vv", "c3_vv", "c4_vv">>[w],
                    !["vh"] = <<"c1_vh", "c2_vh", "c3_vh", "c4_vh">>[w]]
DiskPaths ==
    Paths \cup UNION {{FinalOutput(w), RtcFiles(w)["vv"], RtcFiles(w)["vh"]} : w \in Workers}

\* the tiffs a worker can be given: bounds within tolerance of the chip the
\* registry of JobInit holds, named for its phase, for the other one, or for none
JobRequests ==
    {[bounds |-> Shift(BSquare, Tolerance), phase |-> ph, date |-> 0] :
        ph \in {"pre_disaster", "post_disaster", None}}

\* best_scene of the search for a request: its index and footprint
BestScene(req) == IF req.phase = "pre_disaster" THEN 1 ELSE 2
BestFootprint(req) == FSquare

\* the collaborators of the miss branch, in the order they are called
Chain == <<"dem", "search", "download", "orbit", "rtc">>

Finished(rec, status) == [rec EXCEPT !.pc = "finished", !.outcome = status]

\* scene 1 after the tiff "chip" went through the reuse branch once its final
\* output had been removed: the update has replaced its chip entry by one that
\* names the clipped output alone
ReclippedScene ==
    [SceneOf(1, FSquare, "pre_disaster", <<0>>, TRUE) EXCEPT
        !.maxar_chips[1].processed_files = [NoFiles EXCEPT !["clipped"] = "chip_final"]]

JobInit ==
    /\ registry_file \in {Absent, JsonArray,
                          json_dump(<<SceneOf(1, FSquare, "pre_disaster", <<0>>, TRUE)>>),
                          json_dump(<<ReclippedScene>>)}
    /\ creators = {}
    /\ temp_file = [w \in Workers |-> NoTemp]
    /\ backups = {}
    /\ wk = [w \in Workers |-> IdleWorker]
    /\ faults = 0
    /\ touched = {}
    /\ last_writer = 0
    /\ mutators = {}
    /\ \E finals \in {{}, {FinalOutput(1)}} :
        /\ disk = [p \in DiskPaths |->
                    IF p \in {"S1_vv", "S1_vh"} \cup finals THEN "ok" ELSE "absent"]
        /\ registry_file = json_dump(<<ReclippedScene>>) => finals = {}

\* lines 94-141: phase, directories, bounds and capture date are read, and
\* sar_registry = fix_load_sar_registry(config.output_dir) is entered
JobStart(w) ==
    /\ wk[w].pc = "idle"
    /\ \E r \in JobRequests :
        wk' = [wk EXCEPT ![w] = [IdleWorker EXCEPT !.pc = "load", !.site = "job", !.req = r]]
    /\ UNCHANGED <<registry_file, creators, temp_file, backups, faults, disk, notJob>>
    /\ Untouched

\* rasterio.open raises, the metadata JSON is missing or unreadable
JobStartRaises(w) ==
    /\ wk[w].pc = "idle"
    /\ wk' = [wk EXCEPT ![w] = Finished(wk[w], "failed")]
    /\ UNCHANGED <<registry_file, creators, temp_file, backups, faults, disk, notJob>>
    /\ Untouched

\* matching_scene, existing_files = check_scene_overlap(...) and the test
\* `if matching_scene and existing_files`
Match(w) ==
    /\ wk[w].pc = "match"
    /\ LET rec == wk[w]
           m == check_scene_overlap(rec.req.bounds, rec.sar_registry, rec.req.phase,
                                    rec.req.date, Tolerance, DateToleranceDays, disk)
       IN  wk' = [wk EXCEPT ![w] =
                    [rec EXCEPT !.match = m, !.matched = TRUE,
                                !.pc = IF m.scene_id # None /\ m.processed_files # NoFiles
                                       THEN "reuse" ELSE "process"]]
    /\ UNCHANGED <<registry_file, creators, temp_file, backups, faults, disk, notJob>>
    /\ Untouched

\* `not os.path.exists(final_output)` and vv, vh named and on disk
MustClip(w) ==
    /\ disk[FinalOutput(w)] = "absent"
    /\ \A k \in {"vv", "vh"} :
        /\ wk[w].match.processed_files[k] # NoPath
        /\ disk[wk[w].match.processed_files[k]] # "absent"

\* the reuse branch with nothing to clip: return 'reused'
ReuseReturn(w) ==
    /\ wk[w].pc = "reuse"
    /\ ~MustClip(w)
    /\ wk' = [wk EXCEPT ![w] = Finished(wk[w], "reused")]
    /\ UNCHANGED <<registry_file, creators, temp_file, backups, faults, disk, notJob>>
    /\ Untouched

\* clip_and_merge_rtc_output of the reuse branch, then the update for the
\* chip (matching_scene is a key of sar_registry: the matcher took it from there)
ReuseClip(w) ==
    /\ wk[w].pc = "reuse"
    /\ MustClip(w)
    /\ disk' = [disk EXCEPT ![FinalOutput(w)] = "ok"]
    /\ LET rec == wk[w]
           info == rec.sar_registry[SceneIndex(rec.sar_registry, rec.match.scene_id)]
           a == [scene_id |-> rec.match.scene_id,
                 sentinel_bounds |-> info.sentinel_bounds,
                 maxar_bounds |-> rec.req.bounds,
                 processed_files |-> [NoFiles EXCEPT !["clipped"] = FinalOutput(w)],
                 maxar_id |-> ChipName(w),
                 disaster_phase |-> rec.req.phase,
                 acquisition_date |-> NoDate]
       IN  wk' = [wk EXCEPT ![w] =
                    EnterUpdate([rec EXCEPT !.invoked = @ \cup {"clip"}], a, "reuse")]
    /\ UNCHANGED <<registry_file, creators, temp_file, backups, faults, notJob>>
    /\ Untouched

\* clip_and_merge_rtc_output of the reuse branch raises
ReuseClipRaises(w) ==
    /\ wk[w].pc = "reuse"
    /\ MustClip(w)
    /\ wk' = [wk EXCEPT ![w] = Finished([wk[w] EXCEPT !.invoked = @ \cup {"clip"}], "failed")]
    /\ UNCHANGED <<registry_file, creators, temp_file, backups, faults, disk, notJob>>
    /\ Untouched

\* the update of the reuse branch has returned (its value is not looked at)
ReuseUpdated(w) ==
    /\ wk[w].pc = "done"
    /\ wk[w].caller = "reuse"
    /\ wk' = [wk EXCEPT ![w] = Finished(wk[w], "reused")]
    /\ UNCHANGED <<registry_file, creators, temp_file, backups, faults, disk, notJob>>
    /\ Untouched

\* lines 185-317: DEM, search, download, extents, orbit, RTC run and its outputs
RunCollaborators(w) ==
    /\ wk[w].pc = "process"
    /\ disk' = [p \in DiskPaths |->
                 IF p \in {RtcFiles(w)["vv"], RtcFiles(w)["vh"]} THEN "ok" ELSE disk[p]]
    /\ wk' = [wk EXCEPT ![w].pc = "clip",
                        ![w].invoked = @ \cup {Chain[k] : k \in 1 .. Len(Chain)}]
    /\ UNCHANGED <<registry_file, creators, temp_file, backups, faults, notJob>>
    /\ Untouched

\* one of them raises, or no scene is found, or no VV output: 'failed'
CollaboratorRaises(w) ==
    /\ wk[w].pc = "process"
    /\ \E n \in 1 .. Len(Chain) :
        wk' = [wk EXCEPT ![w] =
                Finished([wk[w] EXCEPT !.invoked = @ \cup {Chain[k] : k \in 1 .. n}], "failed")]
    /\ UNCHANGED <<registry_file, creators, temp_file, backups, faults, disk, notJob>>
    /\ Untouched

\* clip_and_merge_rtc_output of the miss branch, then
\* update_registry_atomic_fixed(scene_id, sentinel_bounds, maxar_bounds,
\* processed_files, base_name, disaster_phase, sentinel_date)
Clip(w) ==
    /\ wk[w].pc = "clip"
    /\ disk' = [disk EXCEPT ![FinalOutput(w)] = "ok"]
    /\ LET rec == wk[w]
           a == [scene_id |-> SceneName(BestScene(rec.req)),
                 sentinel_bounds |-> BestFootprint(rec.req),
                 maxar_bounds |-> rec.req.bounds,
                 processed_files |-> RtcFiles(w),
                 maxar_id |-> ChipName(w),
                 disaster_phase |-> rec.req.phase,
                 acquisition_date |-> <<rec.req.date>>]
       IN  wk' = [wk EXCEPT ![w] =
                    EnterUpdate([rec EXCEPT !.invoked = @ \cup {"clip"}], a, "process")]
    /\ UNCHANGED <<registry_file, creators, temp_file, backups, faults, notJob>>
    /\ Untouched

\* clip_and_merge_rtc_output of the miss branch raises
ClipRaises(w) ==
    /\ wk[w].pc = "clip"
    /\ wk' = [wk EXCEPT ![w] = Finished([wk[w] EXCEPT !.invoked = @ \cup {"clip"}], "failed")]
    /\ UNCHANGED <<registry_file, creators, temp_file, backups, faults, disk, notJob>>
    /\ Untouched

\* the update of the miss branch has returned (False is only logged), the raw
\* files are cleaned up: return 'completed'
ProcessUpdated(w) ==
    /\ wk[w].pc = "done"
    /\ wk[w].caller = "process"
    /\ wk' = [wk EXCEPT ![w] = Finished(wk[w], "completed")]
    /\ UNCHANGED <<registry_file, creators, temp_file, backups, faults, disk, notJob>>
    /\ Untouched

JobNext ==
    \/ \E w \in Workers : JobStart(w)
    \/ \E w \in Workers : JobStartRaises(w)
    \/ \E w \in Workers : LoadRead(w)
    \/ \E w \in Workers : LoadReadNotDict(w)
    \/ \E w \in Workers : UseNotDict(w)
    \/ \E w \in Workers : LoadReadUndecodable(w)
    \/ \E w \in Workers : LoadBackup(w)
    \/ \E w \in Workers : LoadBackupFails(w)
    \/ \E w \in Workers : LoadReadFails(w)
    \/ \E w \in Workers : LoadSeesAbsent(w)
    \/ \E w \in Workers : LoadCreateOpen(w)
    \/ \E w \in Workers : LoadCreateFails(w)
    \/ \E w \in Workers : LoadCreateWrite(w)
    \/ \E w \in Workers : Match(w)
    \/ \E w \in Workers : ReuseReturn(w)
    \/ \E w \in Workers : ReuseClip(w)
    \/ \E w \in Workers : ReuseClipRaises(w)
    \/ \E w \in Workers : ReuseUpdated(w)
    \/ \E w \in Workers : RunCollaborators(w)
    \/ \E w \in Workers : CollaboratorRaises(w)
    \/ \E w \in Workers : Clip(w)
    \/ \E w \in Workers : ClipRaises(w)
    \/ \E w \in Workers : ProcessUpdated(w)
    \/ \E w \in Workers : SaveCreateTemp(w)
    \/ \E w \in Workers : SaveDump(w)
    \/ \E w \in Workers : SaveRename(w)
    \/ \E w \in Workers : SaveFails(w)


(***************************************************************************)
(* Job dispatcher: main.py, process_scenes                                 *)
(***************************************************************************)
Slots == 0 .. (MaxJobs - 1)
Threads == 1 .. MaxJobs
Tiffs == 0 .. (NumTiffs - 1)
Statuses == {"reused", "completed", "failed"}

\* gpu_id = i % config.max_concurrent_jobs
gpu_id(i) == i % MaxJobs

SlotsInit ==
    /\ submitted = 0
    /\ work_queue = <<>>
    /\ pool = [t \in Threads |-> [st |-> "idle", req |-> 0]]
    /\ gpu_semaphores = [k \in Slots |-> 1]
    /\ results = [i \in Tiffs |-> "none"]

\* executor.submit(process_with_gpu, tiff_file, gpu_id) for the next i
Submit ==
    /\ submitted < NumTiffs
    /\ work_queue' = Append(work_queue, submitted)
    /\ submitted' = submitted + 1
    /\ UNCHANGED <<pool, gpu_semaphores, results, notSlots>>

\* an idle pool thread takes the oldest queued request and calls process_with_gpu
TakeTask(t) ==
    /\ pool[t].st = "idle"
    /\ work_queue # <<>>
    /\ pool' = [pool EXCEPT ![t] = [st |-> "wait", req |-> Head(work_queue)]]
    /\ work_queue' = Tail(work_queue)
    /\ UNCHANGED <<submitted, gpu_semaphores, results, notSlots>>

\* Semaphore.acquire: blocks while the value is 0
SemaphoreAcquireBroken(k) == TRUE
SemaphoreAcquire(k) == gpu_semaphores[k] > 0

\* with gpu_semaphores[gpu_id]: entry
EnterSlot(t) ==
    /\ pool[t].st = "wait"
    /\ SemaphoreAcquire(gpu_id(pool[t].req))
    /\ gpu_semaphores' = [gpu_semaphores EXCEPT ![gpu_id(pool[t].req)] = @ - 1]
    /\ pool' = [pool EXCEPT ![t].st = "in"]
    /\ UNCHANGED <<submitted, work_queue, results, notSlots>>

\* process_single_scene returns its status dict (it catches every exception),
\* the with block releases the slot and the future gets the result (LeaveSlot);
\* LeaveSlotHoldsOnFailure would keep the semaphore when the status is 'failed'
LeaveSlotHoldsOnFailure(t) ==
    /\ pool[t].st = "in"
    /\ \E s \in Statuses :
        /\ results' = [results EXCEPT ![pool[t].req] = s]
        /\ gpu_semaphores' = [gpu_semaphores EXCEPT ![gpu_id(pool[t].req)] =
                                 IF s = "failed" THEN @ ELSE @ + 1]
    /\ pool' = [pool EXCEPT ![t] = [st |-> "idle", req |-> 0]]
    /\ UNCHANGED <<submitted, work_queue, notSlots>>
LeaveSlot(t) ==
    /\ pool[t].st = "in"
    /\ \E s \in Statuses : results' = [results EXCEPT ![pool[t].req] = s]
    /\ gpu_semaphores' = [gpu_semaphores EXCEPT ![gpu_id(pool[t].req)] = @ + 1]
    /\ pool' = [pool EXCEPT ![t] = [st |-> "idle", req |-> 0]]
    /\ UNCHANGED <<submitted, work_queue, notSlots>>

SlotsNext ==
    \/ Submit
    \/ \E t \in Threads : TakeTask(t)
    \/ \E t \in Threads : EnterSlot(t)
    \/ \E t \in Threads : LeaveSlot(t)

(***************************************************************************)
(* Result handling: main.py, process_scenes, lines 390-418.  The futures   *)
(* complete in any order with any status; the main thread handles each     *)
(* completed future once and rewrites processing_log.json.                 *)
(***************************************************************************)
Batch == 0 .. (BatchSize - 1)
NoLog == [st |-> "absent", jobs |-> <<>>]
NoLogTemp == [st |-> "none", jobs |-> <<>>]

LogInit ==
    /\ futures = [i \in Batch |-> "pending"]
    /\ yielded = {}
    /\ log_data = <<>>
    /\ processing_log = NoLog
    /\ log_temp = NoLogTemp
    /\ main_thread = [pc |-> "wait", tiff_file |-> 0, raised |-> FALSE]
    /\ log_faults = 0

\* process_with_gpu returns for request i: its future holds the status dict
FutureDone(i) ==
    /\ futures[i] = "pending"
    /\ \E s \in Statuses : futures' = [futures EXCEPT ![i] = s]
    /\ UNCHANGED <<yielded, log_data, processing_log, log_temp, main_thread,
                   log_faults, notLog>>

\* as_completed yields a finished future; result = future.result() and
\* log_data['jobs'].append(result)
AppendResult(i) ==
    /\ main_thread.pc = "wait"
    /\ i \notin yielded
    /\ futures[i] # "pending"
    /\ yielded' = yielded \cup {i}
    /\ log_data' = Append(log_data, [tiff_file |-> i, status |-> futures[i]])
    /\ main_thread' = [pc |-> "tmp", tiff_file |-> i, raised |-> FALSE]
    /\ UNCHANGED <<futures, processing_log, log_temp, log_faults, notLog>>

\* tempfile.NamedTemporaryFile(mode='w', delete=False, dir=...)
CreateLogTemp ==
    /\ main_thread.pc = "tmp"
    /\ log_temp' = [st |-> "created", jobs |-> <<>>]
    /\ main_thread' = [main_thread EXCEPT !.pc = "dump"]
    /\ UNCHANGED <<futures, yielded, log_data, processing_log, log_faults, notLog>>

\* json.dump(log_data, temp_file, indent=2) and the close at the end of the
\* with block (DumpLog); DumpLogLast would write the last result only
DumpLogLast ==
    /\ main_thread.pc = "dump"
    /\ log_temp' = [st |-> "doc", jobs |-> <<log_data[Len(log_data)]>>]
    /\ main_thread' = [main_thread EXCEPT !.pc = "replace"]
    /\ UNCHANGED <<futures, yielded, log_data, processing_log, log_faults, notLog>>
DumpLog ==
    /\ main_thread.pc = "dump"
    /\ log_temp' = [st |-> "doc", jobs |-> log_data]
    /\ main_thread' = [main_thread EXCEPT !.pc = "replace"]
    /\ UNCHANGED <<futures, yielded, log_data, processing_log, log_faults, notLog>>

\* os.replace(temp_file_name, processing_log)
ReplaceLog ==
    /\ main_thread.pc = "replace"
    /\ processing_log' = log_temp
    /\ log_temp' = NoLogTemp
    /\ main_thread' = [main_thread EXCEPT !.pc = "wait"]
    /\ UNCHANGED <<futures, yielded, log_data, log_faults, notLog>>

\* a step of the rewrite raises: the handler appends a 'failed' entry for the
\* tiff; the temporary file, if there is one, stays where it is
HandlingRaises ==
    /\ main_thread.pc \in {"tmp", "dump", "replace"}
    /\ log_faults < MaxFaults
    /\ log_faults' = log_faults + 1
    /\ log_data' = Append(log_data, [tiff_file |-> main_thread.tiff_file, status |-> "failed"])
    /\ main_thread' = [main_thread EXCEPT !.pc = "wait", !.raised = TRUE]
    /\ UNCHANGED <<futures, yielded, processing_log, log_temp, notLog>>

\* sum(1 for job in log_data['jobs'] if job['status'] in [...])
RECURSIVE CountStatus(_, _)
CountStatus(jobs, statuses) ==
    IF jobs = <<>> THEN 0
    ELSE (IF Head(jobs).status \in statuses THEN 1 ELSE 0)
         + CountStatus(Tail(jobs), statuses)
success_count == CountStatus(log_data, {"completed", "reused"})
failed_count == CountStatus(log_data, {"failed"})

\* as_completed is exhausted: the executor is left and the counts are logged
Summarise ==
    /\ main_thread.pc = "wait"
    /\ yielded = Batch
    /\ main_thread' = [main_thread EXCEPT !.pc = "end"]
    /\ UNCHANGED <<futures, yielded, log_data, processing_log, log_temp, log_faults, notLog>>

LogNext ==
    \/ \E i \in Batch : FutureDone(i)
    \/ \E i \in Batch : AppendResult(i)
    \/ CreateLogTemp
    \/ DumpLog
    \/ ReplaceLog
    \/ HandlingRaises
    \/ Summarise

(***************************************************************************)
(* Rebuild: registry.py, rebuild_sar_registry, run from the command line   *)
(* (main.py:454-462) once or several times in a row over one output        *)
(* directory.  The evidence is what the run reads and does not write: the  *)
(* final directory in the order glob lists it, and the raw directory.      *)
(***************************************************************************)
\* a *_RTC_clipped.tif of the final directory: its base name, whether
\* rtc/<base> holds a VV and a VH raster, whether rasterio opens it
FinalFile(i, rtc, readable) == [base |-> ChipName(i), rtc |-> rtc, readable |-> readable]
RECURSIVE FinalListings(_)
FinalListings(n) ==
    IF n = 0 THEN {<<>>}
    ELSE {Append(l, FinalFile(n, rtc, readable)) :
            l \in FinalListings(n - 1), rtc \in BOOLEAN, readable \in BOOLEAN}
\* the raw directory: missing, or walked with the Sentinel zips it holds
RawDirs ==
    {[exists |-> FALSE, zips |-> <<>>], [exists |-> TRUE, zips |-> <<>>],
     [exists |-> TRUE, zips |-> <<SceneName(1)>>],
     [exists |-> TRUE, zips |-> <<SceneName(2), SceneName(1)>>]}
Evidences ==
    {[final |-> l, raw |-> r] :
        l \in UNION {FinalListings(n) : n \in 0 .. MaxFinal}, r \in RawDirs}

\* 'pre_disaster' in base_name / 'post_disaster' in base_name / neither
PhaseOfName(base) ==
    IF base = ChipName(1) THEN "pre_disaster"
    ELSE IF base = ChipName(2) THEN "post_disaster" ELSE None
\* the rasters glob finds in rtc/<base>, and the final file itself
RebuiltFiles(base) ==
    [NoFiles EXCEPT !["vv"] = base \o "_vv", !["vh"] = base \o "_vh",
                    !["clipped"] = base \o "_final"]
\* maxar_bounds +/- 1.0 degree
ApproximateBounds(b) == <<b[1] - 100, b[2] - 100, b[3] + 100, b[4] + 100>>

IdleRebuild ==
    [pc |-> "idle", run |-> 0, i |-> 0, dirs |-> "dict", new_registry |-> <<>>,
     temp |-> NoTemp, clock |-> 0, previous |-> Absent, returned |-> <<>>]

RebuildInit ==
    /\ evidence \in Evidences
    /\ rb = IdleRebuild
    /\ rebuild_backups = <<>>
    /\ registry_file \in {Absent, Corrupt,
                          json_dump(<<SceneOf(3, FWide, None, <<0>>, TRUE)>>)}
    /\ creators = {}
    /\ temp_file = <<>>
    /\ backups = {}
    /\ wk = <<>>
    /\ faults = 0
    /\ touched = {}
    /\ last_writer = 0
    /\ mutators = {}

\* lines 451-458: rebuild_sar_registry is entered, dirs is the dict of
\* directories; the clock may have moved on a second since the last run
\* (RebuildStart).  RebuildStartKeepsDirs would be a dirs that outlives the call
RebuildStartKeepsDirs ==
    /\ rb.pc \in {"idle", "returned", "raised"}
    /\ rb.run < MaxRuns
    /\ \E tick \in {0, 1} :
        rb' = [rb EXCEPT !.pc = "backup", !.run = @ + 1, !.i = 0,
                         !.new_registry = <<>>, !.temp = NoTemp,
                         !.clock = @ + tick, !.previous = registry_file]
    /\ UNCHANGED <<evidence, rebuild_backups, registry_file, faults, notRebuild>>
RebuildStart ==
    /\ rb.pc \in {"idle", "returned", "raised"}
    /\ rb.run < MaxRuns
    /\ \E tick \in {0, 1} :
        rb' = [rb EXCEPT !.pc = "backup", !.run = @ + 1, !.i = 0, !.dirs = "dict",
                         !.new_registry = <<>>, !.temp = NoTemp,
                         !.clock = @ + tick, !.previous = registry_file]
    /\ UNCHANGED <<evidence, rebuild_backups, registry_file, faults, notRebuild>>

\* `if os.path.exists(registry_file)` is False: no backup
RebuildNoBackup ==
    /\ rb.pc = "backup"
    /\ registry_file.st = "absent"
    /\ rb' = [rb EXCEPT !.pc = "scan", !.i = 1]
    /\ UNCHANGED <<evidence, rebuild_backups, registry_file, faults, notRebuild>>

\* shutil.copy2(registry_file, backup_file) opens the backup for writing
RebuildBackupOpen ==
    /\ rb.pc = "backup"
    /\ registry_file.st # "absent"
    /\ rebuild_backups' =
        [n \in (DOMAIN rebuild_backups) \cup {rb.clock} |->
            IF n = rb.clock THEN Empty ELSE rebuild_backups[n]]
    /\ rb' = [rb EXCEPT !.pc = "backup_copy"]
    /\ UNCHANGED <<evidence, registry_file, faults, notRebuild>>

\* shutil.copy2 copies the content (RebuildBackupCopy); RebuildBackupSkipped
\* would leave the backup as it was opened
RebuildBackupSkipped ==
    /\ rb.pc = "backup_copy"
    /\ rb' = [rb EXCEPT !.pc = "scan", !.i = 1]
    /\ UNCHANGED <<evidence, rebuild_backups, registry_file, faults, notRebuild>>
RebuildBackupCopy ==
    /\ rb.pc = "backup_copy"
    /\ rebuild_backups' = [rebuild_backups EXCEPT ![rb.clock] = registry_file]
    /\ rb' = [rb EXCEPT !.pc = "scan", !.i = 1]
    /\ UNCHANGED <<evidence, registry_file, faults, notRebuild>>

\* shutil.copy2 raises: nothing catches it, rebuild_sar_registry is left
RebuildBackupFails ==
    /\ rb.pc \in {"backup", "backup_copy"}
    /\ registry_file.st # "absent"
    /\ faults < MaxFaults
    /\ faults' = faults + 1
    /\ rb' = [rb EXCEPT !.pc = "raised"]
    /\ UNCHANGED <<evidence, rebuild_backups, registry_file, notRebuild>>

\* one pass of `for final_file in final_files` (lines 475-569): what it makes
\* of new_registry, and whether `for root, dirs, files in os.walk(raw)` has
\* bound the name dirs to a list.  dirs['rtc'] on a list raises TypeError,
\* which the except of the pass catches: the file is skipped
ScanReachesWalk(f, dirs) == dirs = "dict" /\ f.rtc
DirsAfter(f, dirs) ==
    IF ScanReachesWalk(f, dirs) /\ evidence.raw.exists THEN "list" ELSE dirs
Registered(f, dirs) ==
    /\ ScanReachesWalk(f, dirs)
    /\ evidence.raw.zips # <<>>
    /\ f.readable
AddFinalFile(registry, f, now) ==
    LET scene_id == Head(evidence.raw.zips)
        chip == [id |-> f.base, bounds |-> BSquare,
                 processed_files |-> RebuiltFiles(f.base), processing_date |-> now,
                 disaster_phase |-> PhaseOfName(f.base)]
        i == SceneIndex(registry, scene_id)
    IN  IF i = 0
        THEN Append(registry,
                [id |-> scene_id, sentinel_bounds |-> ApproximateBounds(BSquare),
                 processed_files |-> [RebuiltFiles(f.base) EXCEPT !["clipped"] = NoPath],
                 processing_date |-> now, disaster_phase |-> PhaseOfName(f.base),
                 acquisition_date |-> NoDate, missing |-> {},
                 maxar_chips |-> <<chip>>])
        ELSE [registry EXCEPT ![i].maxar_chips = PutChip(@, chip)]

RebuildFile ==
    /\ rb.pc = "scan"
    /\ rb.i <= Len(evidence.final)
    /\ LET f == evidence.final[rb.i] IN
        rb' = [rb EXCEPT
                !.i = @ + 1,
                !.dirs = DirsAfter(f, rb.dirs),
                !.new_registry = IF Registered(f, rb.dirs)
                                 THEN AddFinalFile(@, f, rb.run) ELSE @]
    /\ UNCHANGED <<evidence, rebuild_backups, registry_file, faults, notRebuild>>

\* the loop is over: fix_save_sar_registry(output_base_dir, new_registry)
\* creates its temporary file
RebuildSaveCreateTemp ==
    /\ rb.pc = "scan"
    /\ rb.i > Len(evidence.final)
    /\ rb' = [rb EXCEPT !.pc = "save_dump", !.temp = [st |-> "created", reg |-> <<>>]]
    /\ UNCHANGED <<evidence, rebuild_backups, registry_file, faults, notRebuild>>

\* json.dump, flush, fsync, close
RebuildSaveDump ==
    /\ rb.pc = "save_dump"
    /\ rb' = [rb EXCEPT !.pc = "save_rename", !.temp = json_dump(rb.new_registry)]
    /\ UNCHANGED <<evidence, rebuild_backups, registry_file, faults, notRebuild>>

\* os.rename(temp_file.name, registry_file), and `return new_registry`
RebuildSaveRename ==
    /\ rb.pc = "save_rename"
    /\ registry_file' = rb.temp
    /\ rb' = [rb EXCEPT !.pc = "returned", !.temp = NoTemp,
                        !.returned = Append(@, rb.new_registry)]
    /\ UNCHANGED <<evidence, rebuild_backups, faults, notRebuild>>

\* a step of fix_save_sar_registry raises: it unlinks the temporary file and
\* returns False, which rebuild_sar_registry does not look at
RebuildSaveFails ==
    /\ rb.pc \in {"save_dump", "save_rename"}
    /\ faults < MaxFaults
    /\ faults' = faults + 1
    /\ rb' = [rb EXCEPT !.pc = "returned", !.temp = NoTemp,
                        !.returned = Append(@, rb.new_registry)]
    /\ UNCHANGED <<evidence, rebuild_backups, registry_file, notRebuild>>

RebuildNext ==
    \/ RebuildStart
    \/ RebuildNoBackup
    \/ RebuildBackupOpen
    \/ RebuildBackupCopy
    \/ RebuildBackupFails
    \/ RebuildFile
    \/ RebuildSaveCreateTemp
    \/ RebuildSaveDump
    \/ RebuildSaveRename
    \/ RebuildSaveFails

(***************************************************************************)
(* Startup: main.py, main, lines 473-501, ProcessingConfig.__post_init__   *)
(* and the head of process_scenes up to the submit loop.                   *)
(***************************************************************************)
\* the counts a configuration file, SAR_MAX_JOBS or --max-jobs can name
Counts == -1 .. MaxCount
\* args.max_jobs: None when the option is not given, or the int it names
NotGiven == <<>>
MaxJobsArgs == {NotGiven} \cup {<<n>> : n \in Counts}

StartupInit ==
    \E source \in {"file", "env"}, configured \in Counts,
       max_jobs \in MaxJobsArgs :
        startup = [pc |-> "load_config", source |-> source, configured |-> configured,
                   max_jobs |-> max_jobs, max_concurrent_jobs |-> 0, accepted |-> 0]

\* load_config: from_file or from_env builds the ProcessingConfig and
\* _validate_config raises ValueError for a count below 1; main turns the
\* ValueError into parser.error, which exits
LoadConfig ==
    /\ startup.pc = "load_config"
    /\ startup' =
        IF startup.configured < 1
        THEN [startup EXCEPT !.pc = "exit"]
        ELSE [startup EXCEPT !.pc = "override", !.max_concurrent_jobs = startup.configured]
    /\ UNCHANGED notStart

\* `if args.max_jobs: config.max_concurrent_jobs = args.max_jobs`: an int that
\* is 0 is false, as None is; the count is not validated again
Overrides(max_jobs) == max_jobs # NotGiven /\ max_jobs[1] # 0
Override ==
    /\ startup.pc = "override"
    /\ startup' =
        [startup EXCEPT !.pc = "process_scenes",
                        !.max_concurrent_jobs =
                            IF Overrides(startup.max_jobs) THEN startup.max_jobs[1] ELSE @]
    /\ UNCHANGED notStart

\* process_scenes up to ThreadPoolExecutor(max_workers=...), which raises
\* ValueError when max_workers <= 0; main prints the error and exits
CreateExecutor ==
    /\ startup.pc = "process_scenes"
    /\ startup' =
        IF startup.max_concurrent_jobs <= 0
        THEN [startup EXCEPT !.pc = "exit"]
        ELSE [startup EXCEPT !.pc = "submit"]
    /\ UNCHANGED notStart

\* executor.submit(process_with_gpu, tiff_file, i % config.max_concurrent_jobs)
SubmitRequest ==
    /\ startup.pc = "submit"
    /\ startup.accepted < NumTiffs
    /\ startup' = [startup EXCEPT !.accepted = @ + 1]
    /\ UNCHANGED notStart

StartupNext ==
    \/ LoadConfig
    \/ Override
    \/ CreateExecutor
    \/ SubmitRequest

\* validate_sar_registry: every file final/*_RTC_clipped.tif is the 'clipped'
\* entry of the processed_files of some chip of some scene of the registry
validate_sar_registry(registry, final_files) ==
    \A file_name \in final_files :
        \E i \in 1 .. Len(registry) :
            \E j \in 1 .. Len(registry[i].maxar_chips) :
                registry[i].maxar_chips[j].processed_files["clipped"] = file_name

\* glob.glob(os.path.join(final_dir, '*_RTC_clipped.tif')) on the jobs' disk
FinalDir == {FinalOutput(w) : w \in {u \in Workers : disk[FinalOutput(u)] # "absent"}}

(***************************************************************************)
(* The mutator: utils/registry.py, register_processed_scene, called on a   *)
(* registry the caller holds in memory.  A dict is an object: the copy the *)
(* function makes shares with the registry passed whatever it does not     *)
(* copy.                                                                   *)
(***************************************************************************)
IdleMutation ==
    [pc |-> "idle", passed |-> <<>>, original |-> <<>>, args |-> NoArgs,
     returned |-> <<>>, raised |-> FALSE]

\* f"maxar_{datetime.now().strftime('%Y%m%d%H%M%S')}" when no maxar_id is given
DefaultId(a) == IF a.maxar_id = None THEN [a EXCEPT !.maxar_id = "maxar_now"] ELSE a

\* the registry passed, after the call: registry_copy[key] = value.copy() copies
\* each scene dict one level deep, so a scene's 'maxar_chips' dict is the same
\* object in the copy and in the registry passed, and
\* registry_copy[scene_id]['maxar_chips'][maxar_id] = {...} writes into both;
\* a 'maxar_chips' dict the function itself creates belongs to the copy alone
PassedAfter(registry, a, now) ==
    LET i == SceneIndex(registry, a.scene_id) IN
    IF i = 0 \/ "maxar_chips" \in registry[i].missing THEN registry
    ELSE [registry EXCEPT ![i].maxar_chips =
            PutChip(@, [id |-> a.maxar_id, bounds |-> a.maxar_bounds,
                        processed_files |-> a.processed_files,
                        processing_date |-> now,
                        disaster_phase |-> a.disaster_phase])]

\* sentinel_bounds[3] or maxar_bounds[3] raises IndexError inside the try; the
\* model's coordinates are whole hundredths of a degree, which round(x, 6)
\* returns as they are
RoundingRaises(a) == Len(a.sentinel_bounds) < 4 \/ Len(a.maxar_bounds) < 4

\* what the call returns and what it leaves in the registry passed
register_processed_scene(registry, a, now) ==
    IF RoundingRaises(a)
    THEN [returned |-> registry, passed |-> registry, raised |-> TRUE]
    ELSE [returned |-> UpdatedRegistry(registry, DefaultId(a), now),
          passed |-> PassedAfter(registry, DefaultId(a), now),
          raised |-> FALSE]

\* the calls: those of the store's harness, one without maxar_id, and one with
\* bounds of three components
RegisterArgs ==
    LET updates == UNION {UpdateArgs(w) : w \in Workers}
        some == CHOOSE a \in updates : a.scene_id = SceneName(1) /\ a.maxar_id = "chip"
    IN  updates \cup {[some EXCEPT !.maxar_id = None],
                      [some EXCEPT !.maxar_bounds = <<1050, 1050, 1100>>]}

MutInit ==
    \E r \in Registries : mutation = [IdleMutation EXCEPT !.passed = r, !.original = r]

CallRegister ==
    /\ mutation.pc = "idle"
    /\ \E a \in RegisterArgs :
        LET out == register_processed_scene(mutation.passed, a, 1) IN
        mutation' = [mutation EXCEPT !.pc = "returned", !.args = a,
                                     !.passed = out.passed,
                                     !.returned = out.returned,
                                     !.raised = out.raised]
    /\ UNCHANGED notMut

MutNext ==
    \/ CallRegister

(***************************************************************************)
(* Specifications.  Each one runs one part of the program and leaves the   *)
(* variables of the other parts at their idle values.                      *)
(***************************************************************************)
SlotsIdle ==
    /\ submitted = 0
    /\ work_queue = <<>>
    /\ pool = <<>>
    /\ gpu_semaphores = <<>>
    /\ results = <<>>

StoreIdle ==
    /\ registry_file = Absent
    /\ creators = {}
    /\ temp_file = <<>>
    /\ backups = {}
    /\ wk = <<>>
    /\ faults = 0
    /\ touched = {}
    /\ last_writer = 0
    /\ mutators = {}

JobIdle == disk = <<>>

LogIdle ==
    /\ futures = <<>>
    /\ yielded = {}
    /\ log_data = <<>>
    /\ processing_log = NoLog
    /\ log_temp = NoLogTemp
    /\ main_thread = [pc |-> "idle", tiff_file |-> 0, raised |-> FALSE]
    /\ log_faults = 0

RebuildIdle ==
    /\ evidence = <<>>
    /\ rb = IdleRebuild
    /\ rebuild_backups = <<>>

StartupIdle == startup = <<>>

MutIdle == mutation = IdleMutation

MatchIdle ==
    /\ m_registry = <<>>
    /\ m_files = <<>>
    /\ m_request = NoRequest
    /\ m_result = NoMatch

\* the dispatcher: process_scenes with abstract jobs
InitSlots == SlotsInit /\ MatchIdle /\ StoreIdle /\ JobIdle /\ LogIdle /\ RebuildIdle /\ StartupIdle /\ MutIdle
SpecSlots == InitSlots /\ [][SlotsNext]_vars

\* the dispatcher under a scheduler that runs every thread that can run: the
\* main thread goes on submitting, a pool thread with a queued work item takes
\* it, a thread blocked in acquire proceeds once the semaphore stays free, and
\* every job returns (process_single_scene catches what its collaborators
\* raise, and every collaborator call is assumed to return or raise)
FairSlots ==
    /\ WF_vars(Submit)
    /\ \A t \in Threads :
        /\ WF_vars(TakeTask(t))
        /\ WF_vars(EnterSlot(t))
        /\ WF_vars(LeaveSlot(t))
SpecSlotsLive == InitSlots /\ [][SlotsNext]_vars /\ FairSlots

\* the matcher called on every registry and request of the bounded sets
InitMatch == MatchInit /\ SlotsIdle /\ StoreIdle /\ JobIdle /\ LogIdle /\ RebuildIdle /\ StartupIdle /\ MutIdle
SpecMatch == InitMatch /\ [][MatchNext]_vars

\* the registry store under concurrent calls of update_registry_atomic_fixed
Init == StoreInit /\ SlotsIdle /\ MatchIdle /\ JobIdle /\ LogIdle /\ RebuildIdle /\ StartupIdle /\ MutIdle
Next == StoreNext
Spec == Init /\ [][Next]_vars

\* the jobs of process_single_scene, one per worker, on the shared registry
InitJob == JobInit /\ SlotsIdle /\ MatchIdle /\ LogIdle /\ RebuildIdle /\ StartupIdle /\ MutIdle
SpecJob == InitJob /\ [][JobNext]_vars

\* the jobs under a scheduler that runs a pool thread whenever one can take a
\* step: the batch goes on until every job has returned
FairJobs == WF_vars(JobNext)
SpecJobLive == InitJob /\ [][JobNext]_vars /\ FairJobs

\* the as_completed loop over a batch of futures
InitLog == LogInit /\ SlotsIdle /\ MatchIdle /\ StoreIdle /\ JobIdle /\ RebuildIdle /\ StartupIdle /\ MutIdle
SpecLog == InitLog /\ [][LogNext]_vars

\* rebuild_sar_registry run up to MaxRuns times in a row
InitRebuild == RebuildInit /\ SlotsIdle /\ MatchIdle /\ JobIdle /\ LogIdle /\ StartupIdle /\ MutIdle
SpecRebuild == InitRebuild /\ [][RebuildNext]_vars

\* main from the loaded configuration to the submit loop
InitStartup ==
    StartupInit /\ SlotsIdle /\ MatchIdle /\ StoreIdle /\ JobIdle /\ LogIdle /\ RebuildIdle
    /\ MutIdle
SpecStartup == InitStartup /\ [][StartupNext]_vars

\* register_processed_scene called once on every registry of the bounded set
InitMut ==
    MutInit /\ SlotsIdle /\ MatchIdle /\ StoreIdle /\ JobIdle /\ LogIdle /\ RebuildIdle
    /\ StartupIdle
SpecMut == InitMut /\ [][MutNext]_vars

(***************************************************************************)
(* Properties                                                              *)
(***************************************************************************)
\* the requests inside slot k's region
InSlot(k) == {t \in Threads : pool[t].st = "in" /\ gpu_id(pool[t].req) = k}

\* C1: slot exclusivity: at most one request executes process_single_scene in
\* any slot, hence at most max_concurrent_jobs requests are inside at once.
C1_SlotExclusivity ==
    /\ \A k \in Slots : Cardinality(InSlot(k)) <= 1
    /\ Cardinality({t \in Threads : pool[t].st = "in"}) <= MaxJobs

\* more requests than slots were submitted, one is inside a slot and another
\* request of the same slot is blocked on it
C1_Witness ==
    /\ submitted > MaxJobs
    /\ \E t, u \in Threads :
        /\ t # u
        /\ pool[t].st = "in"
        /\ pool[u].st = "wait"
        /\ gpu_id(pool[u].req) = gpu_id(pool[t].req)

Called == m_request # NoRequest
MatchedScene == m_registry[SceneIndex(m_registry, m_result.scene_id)]

\* C8: phase exclusion: a post_disaster request is never answered with a
\* pre_disaster scene and a pre_disaster request never with a post_disaster
\* scene, by the exact-chip pass or by the containment pass.
PhaseCompatible(res, phase) ==
    res.scene_id # None =>
        m_registry[SceneIndex(m_registry, res.scene_id)].disaster_phase \in {None, phase}

C8_PhaseExclusion ==
    (Called /\ m_request.phase \in {"pre_disaster", "post_disaster"}) =>
        /\ PhaseCompatible(m_result, m_request.phase)
        /\ PhaseCompatible(ExactPass(m_request.bounds, m_registry, m_request.phase,
                                     Tolerance), m_request.phase)
        /\ PhaseCompatible(ContainmentPass(m_request.bounds, m_registry, m_request.phase,
                                           m_request.date, DateToleranceDays, m_files),
                           m_request.phase)

\* a post_disaster request whose bounds and date are those of a registered
\* pre_disaster chip and scene, all files valid, gets no match
C8_Witness ==
    /\ Called
    /\ m_request = [bounds |-> BSquare, phase |-> "post_disaster", date |-> 0]
    /\ m_registry = <<SceneOf(1, FSquare, "pre_disaster", <<0>>, TRUE)>>
    /\ m_files = AllOk
    /\ m_result = NoMatch
\* request bounds (west, south, east, north) inside a footprint stored as
\* (west, south, east, north), grown by the buffer on all sides
InsideFootprint(bounds, footprint, buffer) ==
    /\ bounds[1] >= footprint[1] - buffer
    /\ bounds[2] >= footprint[2] - buffer
    /\ bounds[3] <= footprint[3] + buffer
    /\ bounds[4] <= footprint[4] + buffer

\* the scene's phase is the request's or the request's is unknown, the dates
\* are within the day tolerance and the base vv/vh files are valid
Reusable(info, req) ==
    /\ req.phase \in {info.disaster_phase, "unknown"}
    /\ info.acquisition_date # NoDate
    /\ Abs(info.acquisition_date[1] - req.date) <= 2 * DateToleranceDays
    /\ FilesValidated(info.processed_files, m_files)

\* C10: containment reuse: when no chip matches exactly, the first scene in
\* the registry that is reusable for the request and whose buffered footprint
\* (west, south, east, north) holds the request bounds answers with its base
\* outputs, and no scene answers a request outside its buffered footprint;
\* for square and non-square footprints alike.
C10_ContainmentReuse ==
    (Called /\ ExactPass(m_request.bounds, m_registry, m_request.phase, Tolerance) = NoMatch) =>
        /\ \A i \in 1 .. Len(m_registry) :
            (/\ Reusable(m_registry[i], m_request)
             /\ InsideFootprint(m_request.bounds, m_registry[i].sentinel_bounds, Buffer)
             /\ \A j \in 1 .. (i - 1) : m_result.scene_id # m_registry[j].id)
            => m_result = [scene_id |-> m_registry[i].id,
                           processed_files |-> m_registry[i].processed_files]
        /\ m_result.scene_id # None =>
            InsideFootprint(m_request.bounds, MatchedScene.sentinel_bounds, Buffer)
\* the chip maxar_id under scene_id, with the bounds and processed_files of a
HasRecord(registry, a) ==
    \E i \in 1 .. Len(registry) :
        /\ registry[i].id = a.scene_id
        /\ \E j \in 1 .. Len(registry[i].maxar_chips) :
            /\ registry[i].maxar_chips[j].id = a.maxar_id
            /\ registry[i].maxar_chips[j].bounds = a.maxar_bounds
            /\ registry[i].maxar_chips[j].processed_files = a.processed_files

\* C2: atomic update durability, single writer: when a call of
\* update_registry_atomic_fixed has returned True and no other worker has
\* written the registry file since the call was made, a fresh load holds
\* scene_id and under it the chip maxar_id with the bounds and files passed.
C2_UpdateDurability ==
    \A w \in Workers :
        (wk[w].ret = "true" /\ w \notin touched)
        => HasRecord(Persisted(registry_file), wk[w].args)

\* a call returned True with no other writer about, its chip added to a scene
\* that already held another chip
C2_Witness ==
    \E w \in Workers :
        /\ wk[w].ret = "true"
        /\ w \notin touched
        /\ wk[w].args.scene_id = "S1"
        /\ Len(Persisted(registry_file)) = 1
        /\ Len(Persisted(registry_file)[1].maxar_chips) = 2

\* C3: lost update under concurrency: a record whose call returned True is
\* missing from the registry file only when another worker wrote the file
\* last (the witness is the interleaving in which that happens although
\* every call returned True).
C3_LostOnlyToAnotherWriter ==
    \A w \in Workers :
        (wk[w].ret = "true" /\ ~HasRecord(Persisted(registry_file), wk[w].args))
        => last_writer \notin {0, w}

\* every call has returned True and the file lacks the record of one of them
C3_Witness ==
    /\ \A w \in Workers : wk[w].ret = "true"
    /\ \E w \in Workers : ~HasRecord(Persisted(registry_file), wk[w].args)
    /\ faults = 0

SavePcs == {"save_tmp", "save_dump", "save_rename"}

\* C4: crash and failure atomicity of persist: no step of fix_save_sar_registry
\* before its rename changes the registry file, so a kill at any of them
\* leaves the previous document; a step that raises ends the save with the
\* temporary file removed and False returned (the update's next attempt).
C4_PersistAtomicity ==
    [][\A w \in Workers :
        (/\ wk[w].pc \in SavePcs
         /\ wk'[w] # wk[w]
         /\ ~(wk[w].pc = "save_rename" /\ wk'[w].site = "verify"))
        => /\ registry_file' = registry_file
           /\ wk'[w].pc \notin SavePcs =>
                (temp_file'[w] = NoTemp /\ wk'[w] = NextAttempt(wk[w]))]_vars

\* a save raised after its temporary file was written: the registry file is
\* the document it was, and the temporary file is gone
C4_Witness ==
    \E w \in Workers :
        /\ wk[w].attempt = 1
        /\ wk[w].pc = "load"
        /\ faults = 1
        /\ last_writer = 0
        /\ temp_file[w] = NoTemp
        /\ registry_file = json_dump(<<SceneOf(1, FSquare, "pre_disaster", <<0>>, TRUE)>>)

\* C5: rename is the only visible transition: no read of the registry file
\* finds it created or truncated and not yet written.
C5_NoPartialRead ==
    [][\A w \in Workers :
        (wk[w].pc = "load" /\ wk'[w].pc = "backup") => registry_file.st # "empty"]_vars

\* C6: registry monotonicity: every scene id persisted when a call of
\* update_registry_atomic_fixed is made is still persisted when it returns.
C6_Monotonic ==
    [][\A w \in Workers :
        (wk[w].pc # "done" /\ wk'[w].pc = "done")
        => wk[w].before \subseteq SceneIds(Persisted(registry_file'))]_vars
\* C7: a failed job never mutates the registry: no worker whose job ended
\* 'failed' has changed the scenes or chips the registry file holds.
C7_FailedJobFrame ==
    \A w \in Workers : wk[w].outcome = "failed" => w \notin mutators

\* the chips <<scene, chip>> of the registry worker w loaded whose four bound
\* components are each within the tolerance of the request's
NearChips(w) ==
    LET reg == wk[w].sar_registry IN
    {h \in UNION {{<<i, j>> : j \in 1 .. Len(reg[i].maxar_chips)} : i \in 1 .. Len(reg)} :
        \A c \in 1 .. 4 :
            /\ reg[h[1]].maxar_chips[h[2]].bounds[c] - wk[w].req.bounds[c] <= Tolerance
            /\ wk[w].req.bounds[c] - reg[h[1]].maxar_chips[h[2]].bounds[c] <= Tolerance}

OkChips(w) ==
    {h \in NearChips(w) :
        wk[w].sar_registry[h[1]].disaster_phase \in {None, wk[w].req.phase}}

C11_StaleEntryMiss ==
    Called =>
        \A k \in {"vv", "vh"} :
            m_result.processed_files[k] # NoPath =>
                m_files[m_result.processed_files[k]] # "absent"
\* C12: load never raises and always yields a usable registry: whatever the
\* registry file holds, what fix_load_sar_registry returns is a mapping from
\* scene id to record.
C12_LoadYieldsRegistry ==
    \A w \in Workers : wk[w].pc # "not_a_dict"
\* C13: corrupt registry is preserved: once a load that found undecodable
\* content has returned, a backup file holds exactly that content.
C13_CorruptPreserved ==
    \A w \in Workers :
        (wk[w].found # NoTemp /\ wk[w].pc # "backup") => wk[w].found \in backups
\* C14: bounded retry without throwing: a call of update_registry_atomic_fixed
\* is in its load-mutate-persist-verify cycle at most max_retries times; it
\* returns True only from a verification, and does so as soon as a
\* verification reads a registry holding the scene; it returns False after
\* max_retries cycles failed; these are its only ways out.
C14_BoundedRetry ==
    [][\A w \in Workers :
        /\ wk'[w].attempt <= max_retries
        /\ wk'[w].site \in {"update", "verify"} => wk'[w].attempt < max_retries
        /\ wk'[w].ret = "true" => wk'[w].attempt < max_retries
        /\ wk'[w].ret = "false" => wk'[w].attempt = max_retries
        /\ wk'[w].pc = "done" => wk'[w].ret \in {"true", "false"}
        /\ (wk[w].ret # "true" /\ wk'[w].ret = "true") =>
                (wk[w].site = "verify" /\ wk'[w].attempt = wk[w].attempt)
        /\ (/\ wk[w].site = "verify"
            /\ wk[w].pc = "load"
            /\ wk'[w] # wk[w]
            /\ faults' = faults
            /\ wk[w].args.scene_id \in SceneIds(Persisted(registry_file)))
           => wk'[w].ret = "true"]_vars

\* one call gave up with False after max_retries cycles, another returned
\* True from its second cycle
C14_Witness ==
    \E w, u \in Workers :
        /\ wk[w].ret = "false"
        /\ wk[w].attempt = max_retries
        /\ wk[u].ret = "true"
        /\ wk[u].attempt = 1
\* the scene records of one id in the registry file before and after a step
SameScene(i, j) ==
    /\ i \in 1 .. Len(Persisted(registry_file))
    /\ j \in 1 .. Len(Persisted(registry_file'))
    /\ Persisted(registry_file)[i].id = Persisted(registry_file')[j].id

PairsOfScenes ==
    (1 .. Len(Persisted(registry_file))) \X (1 .. Len(Persisted(registry_file')))

\* C15: first-write-wins: the disaster_phase and the acquisition_date of a
\* persisted scene record, once they hold a value, are the same after every
\* step of every update.
C15_FirstWriteWins ==
    [][\A p \in PairsOfScenes :
        SameScene(p[1], p[2]) =>
            LET old == Persisted(registry_file)[p[1]]
                new == Persisted(registry_file')[p[2]]
            IN  /\ ("disaster_phase" \notin old.missing /\ old.disaster_phase # None)
                    => new.disaster_phase = old.disaster_phase
                /\ ("acquisition_date" \notin old.missing /\ old.acquisition_date # NoDate)
                    => new.acquisition_date = old.acquisition_date]_vars

\* C16: chip immutability: a chip that stays under its scene keeps its bounds
\* through every step of every update.
C16_ChipImmutability ==
    [][\A p \in PairsOfScenes :
        SameScene(p[1], p[2]) =>
            LET old == Persisted(registry_file)[p[1]].maxar_chips
                new == Persisted(registry_file')[p[2]].maxar_chips
            IN  \A a \in 1 .. Len(old), b \in 1 .. Len(new) :
                    old[a].id = new[b].id => new[b].bounds = old[a].bounds]_vars
\* the entries of a jobs list for request i
EntriesOf(jobs, i) == {n \in 1 .. Len(jobs) : jobs[n].tiff_file = i}

\* C17: one outcome per request: when the batch is over, log_data['jobs']
\* holds exactly one entry for each request, its status one of reused,
\* completed, failed, and success_count + failed_count is the batch size.
C17_OneOutcomePerRequest ==
    main_thread.pc = "end" =>
        /\ \A i \in Batch : Cardinality(EntriesOf(log_data, i)) = 1
        /\ \A n \in 1 .. Len(log_data) : log_data[n].status \in Statuses
        /\ success_count + failed_count = BatchSize
\* the summary file holds an entry for every request handled so far
ListsHandled(file) == \A i \in yielded : EntriesOf(file.jobs, i) # {}
\* the summary file changes only by the rename of a fully written temporary
OnlyReplaced ==
    processing_log' # processing_log =>
        /\ main_thread.pc = "replace"
        /\ log_temp.st = "doc"
        /\ processing_log' = log_temp
Handled == main_thread.pc \in {"wait", "end"}

C19_InSlotOrder ==
    \A t \in Threads :
        pool[t].st = "in" =>
            \A i \in Tiffs :
                (i < pool[t].req /\ gpu_id(i) = gpu_id(pool[t].req)) =>
                    results[i] # "none"
\* the threads blocked in gpu_semaphores[k].acquire()
WaitingOn(k) == {t \in Threads : pool[t].st = "wait" /\ gpu_id(pool[t].req) = k}
\* a thread that leaves its slot gives the semaphore back and reports a status
ReleasesSlot ==
    \A t \in Threads :
        (pool[t].st = "in" /\ pool'[t].st # "in") =>
            /\ gpu_semaphores'[gpu_id(pool[t].req)] = gpu_semaphores[gpu_id(pool[t].req)] + 1
            /\ results'[pool[t].req] \in Statuses

\* C20: slot release and progress: a job that ends, with 'failed' as with any
\* other status, releases its slot; a slot whose semaphore is taken is held by
\* a running job whenever a request waits on it; and every submitted request
\* eventually produces an outcome: from some point on, every request that
\* has been submitted has its result (a result, once set, stays).
C20_SlotReleaseAndProgress ==
    /\ [][ReleasesSlot]_vars
    /\ [](\A k \in Slots :
            (WaitingOn(k) # {} /\ gpu_semaphores[k] = 0) => InSlot(k) # {})
    /\ <>[](\A i \in Tiffs : (submitted > i) => (results[i] # "none"))

\* a job failed, and a later request of the same slot has produced an outcome
C20_Witness ==
    \E i, j \in Tiffs :
        /\ i < j
        /\ gpu_id(i) = gpu_id(j)
        /\ results[i] = "failed"
        /\ results[j] # "none"
\* the jobs whose collaborators all succeeded and whose update returned False
BookkeepingFailed ==
    {w \in Workers : wk[w].pc = "finished" /\ wk[w].caller = "process"
                      /\ wk[w].ret = "false"}

\* C21: bookkeeping failure is not job failure: a job whose collaborators all
\* succeeded and whose update_registry_atomic_fixed returned False ends
\* 'completed', and that update has left the registry as it was: the registry
\* file does not hold the chip record the update was called to add.
C21_BookkeepingFailure ==
    \A w \in BookkeepingFailed :
        /\ wk[w].outcome = "completed"
        /\ ~HasRecord(Persisted(registry_file), wk[w].args)
\* the chip records the registry file holds under the id of worker w's tiff
ChipsOf(w) ==
    LET registry == Persisted(registry_file) IN
    UNION {{registry[i].maxar_chips[j] :
                j \in {n \in 1 .. Len(registry[i].maxar_chips) :
                          registry[i].maxar_chips[n].id = ChipName(w)}} :
            i \in 1 .. Len(registry)}

\* C22: chip outputs include the clipped product: the chip record a job that
\* ended 'completed' has written to the registry names, under 'clipped', the
\* final output clipped for that request, a file that is none of the scene's
\* base outputs.
C22_ChipHasClipped ==
    \A w \in Workers :
        (wk[w].pc = "finished" /\ wk[w].outcome = "completed") =>
            \A chip \in ChipsOf(w) :
                /\ chip.processed_files["clipped"] = FinalOutput(w)
                /\ FinalOutput(w) \notin {wk[w].args.processed_files[k] : k \in Kinds}
\* the scene ids of a registry, each with the set of its chip ids
SceneChipSets(registry) ==
    {<<registry[i].id,
       {registry[i].maxar_chips[j].id : j \in 1 .. Len(registry[i].maxar_chips)}>> :
        i \in 1 .. Len(registry)}

\* C23: idempotent rebuild: the registries that runs of rebuild_sar_registry
\* made in a row over the same evidence return have the same scene ids and,
\* scene by scene, the same chip ids.
C23_IdempotentRebuild ==
    \A m, n \in 1 .. Len(rb.returned) :
        SceneChipSets(rb.returned[m]) = SceneChipSets(rb.returned[n])

\* two runs have returned, over two final files that both have their RTC
\* rasters and a raw directory that names a scene
C23_Witness ==
    /\ Len(rb.returned) >= 2
    /\ Len(evidence.final) >= 2
    /\ \A i \in 1 .. 2 : evidence.final[i].rtc /\ evidence.final[i].readable
    /\ rb.returned[1] # <<>>
    /\ registry_file = json_dump(rb.returned[2])
\* some sar_registry.json.backup.<time> holds the content, whole
BackedUp(file) == \E n \in DOMAIN rebuild_backups : rebuild_backups[n] = file

\* C24: rebuild backs up before replacing: from the moment a run of
\* rebuild_sar_registry has found a registry file until the next run starts,
\* the content the file had when the run started is in the registry file or,
\* whole, in a backup; the file is replaced only once the backup holds it.
C24_BackupBeforeReplace ==
    /\ [](rb.previous.st # "absent" =>
            (registry_file = rb.previous \/ BackedUp(rb.previous)))
    /\ [][(registry_file' # registry_file /\ registry_file.st # "absent")
            => BackedUp(registry_file)]_vars

\* a run has replaced a registry document by another, and the backup holds
\* the document it replaced
C24_Witness ==
    /\ rb.pc = "returned"
    /\ rb.previous.st = "doc"
    /\ rb.previous.reg # <<>>
    /\ registry_file # rb.previous
    /\ BackedUp(rb.previous)
\* a count below 1 has been given, by the configuration or by --max-jobs
InvalidCountGiven ==
    \/ startup.configured < 1
    \/ (startup.max_jobs # NotGiven /\ startup.max_jobs[1] < 1)

\* C25: invalid concurrency count is fatal at startup: when the configuration
\* file, the environment or --max-jobs names a count below 1, the run stops
\* with no request submitted.
C25_InvalidCountFatal ==
    InvalidCountGiven => (startup.accepted = 0 /\ startup.pc # "submit")
\* the registry with no scene's disaster_phase set: nothing in it can be
\* skipped for its phase
PhasesUnset(registry) ==
    [i \in 1 .. Len(registry) |-> [registry[i] EXCEPT !.disaster_phase = None]]

\* C26: unknown-phase requests are not phase-filtered: for a request whose
\* phase is None, as process_single_scene passes it when it detects none,
\* check_scene_overlap answers as it would if no scene had a phase set: no
\* scene is left out of either pass for its disaster_phase.
C26_UnknownPhaseNotFiltered ==
    (Called /\ m_request.phase = None) =>
        m_result = check_scene_overlap(m_request.bounds, PhasesUnset(m_registry),
                                       m_request.phase, m_request.date, Tolerance,
                                       DateToleranceDays, m_files)
\* scene i passes every test of the containment pass but the date filter,
\* and no scene before it is returned
DateDecides(i) ==
    /\ ExactPass(m_request.bounds, m_registry, m_request.phase, Tolerance) = NoMatch
    /\ ~PhaseSkipped(m_registry[i], m_request.phase)
    /\ Len(m_registry[i].sentinel_bounds) = 4
    /\ is_contained(m_request.bounds, m_registry[i].sentinel_bounds, Buffer)
    /\ FilesValidated(m_registry[i].processed_files, m_files)
    /\ \A j \in ContainmentHits(m_request.bounds, m_registry, m_request.phase,
                                  m_request.date, DateToleranceDays, m_files) : j >= i
\* both dates are known and lie more than date_tolerance_days apart (dates
\* count half days)
TooFarApart(info, maxar_date, date_tolerance_days) ==
    /\ info.acquisition_date # NoDate
    /\ Abs(info.acquisition_date[1] - maxar_date) > 2 * date_tolerance_days

\* C27: date filter of the containment pass: a scene that only the date
\* filter can keep from being returned is passed over exactly when its date
\* and the request's are both known and differ by more than
\* date_tolerance_days, whichever of the two is the earlier.
C27_DateFilter ==
    Called =>
        \A i \in 1 .. Len(m_registry) :
            DateDecides(i) =>
                ((m_result.scene_id # m_registry[i].id)
                    <=> TooFarApart(m_registry[i], m_request.date, DateToleranceDays))
\* scene i is not passed over for its phase or its date and its buffered
\* footprint holds the request: the candidate handed to the validation
Contains(i) ==
    /\ ~PhaseSkipped(m_registry[i], m_request.phase)
    /\ ~DateSkipped(m_registry[i], m_request.date, DateToleranceDays)
    /\ Len(m_registry[i].sentinel_bounds) = 4
    /\ InsideFootprint(m_request.bounds, m_registry[i].sentinel_bounds, Buffer)
ContainsAndValidates(i) ==
    Contains(i) /\ FilesValidated(m_registry[i].processed_files, m_files)

\* C28: validation failure does not end the match: when no chip matches and
\* the first scene that contains the request fails the validation of its
\* files, the answer is the first later scene that contains the request and
\* validates, and 'no match' exactly when there is none.
C28_ValidationFailureContinues ==
    (Called /\ ExactPass(m_request.bounds, m_registry, m_request.phase, Tolerance) = NoMatch) =>
        \A i \in 1 .. Len(m_registry) :
            (/\ Contains(i)
             /\ ~FilesValidated(m_registry[i].processed_files, m_files)
             /\ \A j \in 1 .. (i - 1) : ~Contains(j))
            => LET later == {j \in (i + 1) .. Len(m_registry) : ContainsAndValidates(j)} IN
               IF later = {} THEN m_result = NoMatch
               ELSE LET j == CHOOSE x \in later : \A y \in later : x <= y IN
                    m_result = [scene_id |-> m_registry[j].id,
                                processed_files |-> m_registry[j].processed_files]
\* chip j of scene i is an exact match: the scene is not passed over for its
\* phase and the four bounds are within tolerance of the request's
ExactChip(i, j) ==
    /\ ~PhaseSkipped(m_registry[i], m_request.phase)
    /\ \A c \in 1 .. 4 :
        Abs(m_request.bounds[c] - m_registry[i].maxar_chips[j].bounds[c]) <= Tolerance
ExactChips ==
    {h \in UNION {{<<i, j>> : j \in 1 .. Len(m_registry[i].maxar_chips)} :
                  i \in 1 .. Len(m_registry)} : ExactChip(h[1], h[2])}
\* the scenes the containment pass would return, taken on its own
ContainmentMatches ==
    ContainmentHits(m_request.bounds, m_registry, m_request.phase, m_request.date,
                    DateToleranceDays, m_files)

\* C29: pass order and tie-break: when some chip is an exact match, the
\* answer is the scene and the processed_files of the exact match that comes
\* first in registry order (scenes, then chips within a scene), whatever
\* scenes contain the request; the answer is a containment match only when
\* no chip is an exact match.
C29_PassOrder ==
    Called =>
        LET exact == ExactChips IN
        /\ \A h \in exact :
            (\A g \in exact : h[1] < g[1] \/ (h[1] = g[1] /\ h[2] <= g[2]))
            => m_result = [scene_id |-> m_registry[h[1]].id,
                           processed_files |-> m_registry[h[1]].maxar_chips[h[2]].processed_files]
        /\ exact = {} =>
            m_result = ContainmentPass(m_request.bounds, m_registry, m_request.phase,
                                       m_request.date, DateToleranceDays, m_files)

\* the first scene contains the request and would be returned by the
\* containment pass, the second holds two chips that match exactly: the
\* answer is the first chip of the second scene
C29_Witness ==
    /\ Called
    /\ Len(m_registry) = 2
    /\ 1 \in ContainmentMatches
    /\ {<<2, 1>>, <<2, 2>>} \subseteq ExactChips
    /\ \A h \in ExactChips : h[1] = 2
    /\ m_result = [scene_id |-> m_registry[2].id,
                   processed_files |-> m_registry[2].maxar_chips[1].processed_files]
    /\ m_result.processed_files # m_registry[2].maxar_chips[2].processed_files
    /\ m_result.processed_files # m_registry[1].processed_files
\* C30: validation gate covers every referenced file: when the answer is a
\* scene's base outputs (no chip matched exactly, a containing scene is
\* returned), the returned map is not empty and every file it names, of
\* whatever output kind, is on the disk with a size above zero at that moment.
C30_EveryReferencedFileValidated ==
    (Called /\ ExactChips = {} /\ m_result.scene_id # None) =>
        /\ m_result.processed_files # NoFiles
        /\ \A k \in Kinds :
            m_result.processed_files[k] # NoPath =>
                m_files[m_result.processed_files[k]] = "ok"
\* the registry file holds, under the scene the matcher answered worker w
\* with, a chip of w's tiff with the bounds of w's request
ChipRegistered(w) ==
    \E i \in 1 .. Len(Persisted(registry_file)) :
        /\ Persisted(registry_file)[i].id = wk[w].match.scene_id
        /\ \E chip \in ChipsOf(w) :
            /\ chip.bounds = wk[w].req.bounds
            /\ ChipIndex(Persisted(registry_file)[i].maxar_chips, chip.id) # 0

\* C31: reuse re-registers the chip: when a job has ended 'reused' and its
\* registry update has not failed, the registry file holds, under the matched
\* scene, a chip record with the identifier and the bounds of the requesting
\* chip, whether or not the final output was already there.
C31_ReuseRegistersChip ==
    \A w \in Workers :
        (wk[w].pc = "finished" /\ wk[w].outcome = "reused" /\ wk[w].ret # "false")
            => ChipRegistered(w)
\* C32: verify checks the expected record: update_registry_atomic_fixed
\* returns True only when the registry file it reads back holds the record it
\* wrote, the chip maxar_id under scene_id with the bounds and files passed,
\* and not merely some record for scene_id.
C32_VerifyChecksRecord ==
    [][\A w \in Workers :
        (wk[w].ret # "true" /\ wk'[w].ret = "true")
            => HasRecord(Persisted(registry_file), wk[w].args)]_vars
\* C33: the mutator is pure: after register_processed_scene has returned, the
\* registry passed to it is what it was at the call (same scenes, same fields,
\* same chips in each scene), whether the call added a chip to a scene, created
\* a scene or met an error; after an error what it returns is that registry.
C33_MutatorPure ==
    mutation.pc = "returned" =>
        /\ mutation.passed = mutation.original
        /\ mutation.raised => mutation.returned = mutation.original
\* C34: an unset phase or date is filled by the next update: once an update
\* that carries a phase has returned True with no other writer about, the
\* scene it was for has a disaster_phase in the registry file, and once it
\* carries a date the scene has an acquisition_date.
C34_UnsetPhaseFilled ==
    \A w \in Workers :
        (wk[w].ret = "true" /\ w \notin touched) =>
            \A i \in 1 .. Len(Persisted(registry_file)) :
                Persisted(registry_file)[i].id = wk[w].args.scene_id =>
                    /\ wk[w].args.disaster_phase # None =>
                        Persisted(registry_file)[i].disaster_phase # None
                    /\ wk[w].args.acquisition_date # NoDate =>
                        Persisted(registry_file)[i].acquisition_date # NoDate
\* every job of the batch has ended 'completed' or 'reused' and no update of
\* the registry has returned False
CleanBatch ==
    \A w \in Workers :
        /\ wk[w].pc = "finished"
        /\ wk[w].outcome \in {"completed", "reused"}
        /\ wk[w].ret # "false"

\* C35: audit passes after a clean batch: when the batch starts with no
\* registry file and no final output, then once every job has ended
\* 'completed' or 'reused' with every registry update returning True,
\* validate_sar_registry returns True: every final output on disk is the
\* clipped product of some chip of the registry file.
C35_AuditAfterCleanBatch ==
    (registry_file = Absent /\ \A w \in Workers : disk[FinalOutput(w)] = "absent")
        => [](CleanBatch => validate_sar_registry(Persisted(registry_file), FinalDir))
\* C36: 'reused' implies a delivered output: when a job has ended 'reused',
\* the final output it reports as output_file is on the disk, whichever chip
\* or scene the matcher answered with.
C36_ReusedHasOutput ==
    \A w \in Workers :
        (wk[w].pc = "finished" /\ wk[w].outcome = "reused") =>
            disk[FinalOutput(w)] # "absent"
\* C37: no cross-phase chip reuse: when the answer is the scene and the
\* outputs of a chip the exact pass matched, that chip's own disaster_phase is
\* not the other phase than the request's: a post_disaster request is never
\* answered with a pre_disaster chip nor a pre_disaster request with a
\* post_disaster chip, whatever the phase of the scene that holds the chip.
C37_NoCrossPhaseChip ==
    Called =>
        \A h \in ExactChips :
            LET chip == m_registry[h[1]].maxar_chips[h[2]] IN
            (/\ m_result = [scene_id |-> m_registry[h[1]].id,
                            processed_files |-> chip.processed_files]
             /\ m_request.phase \in {"pre_disaster", "post_disaster"}
             /\ chip.disaster_phase # None)
                => chip.disaster_phase = m_request.phase
\* every final output has its RTC directory with VV and VH rasters and can be
\* read, and the raw directory holds a Sentinel archive
Recoverable ==
    /\ evidence.raw.zips # <<>>
    /\ \A i \in 1 .. Len(evidence.final) :
        evidence.final[i].rtc /\ evidence.final[i].readable

\* C38: rebuild registers every recoverable output: when every final output
\* is recoverable, the registry rebuild_sar_registry returns holds a chip for
\* each of them, and when its save has gone through validate_sar_registry
\* returns True on the registry file: each final output is the clipped
\* product of a chip.
C38_RebuildRegistersAll ==
    (rb.pc = "returned" /\ Recoverable) =>
        /\ \A i \in 1 .. Len(evidence.final) :
            \E s \in 1 .. Len(rb.returned[Len(rb.returned)]) :
                ChipIndex(rb.returned[Len(rb.returned)][s].maxar_chips,
                          evidence.final[i].base) # 0
        /\ registry_file = json_dump(rb.returned[Len(rb.returned)]) =>
            validate_sar_registry(Persisted(registry_file),
                {RebuiltFiles(evidence.final[i].base)["clipped"] :
                    i \in 1 .. Len(evidence.final)})
\* where a worker is while it is inside fix_load_sar_registry
LoadPcs == {"load", "backup", "create_open", "create_write"}

\* C39: load never alters an existing registry: a step a worker takes inside
\* fix_load_sar_registry, the create-if-absent branch included, leaves a
\* registry file that holds a registry as it is.
C39_LoadNeverAlters ==
    [][\A w \in Workers :
        (wk[w].pc \in LoadPcs /\ wk'[w] # wk[w] /\ registry_file.st = "doc")
            => registry_file' = registry_file]_vars
====
